---- MODULE Spec2Model ----
(***************************************************************************)
(* Licence_Management: the status/reminder computation of                  *)
(* business/reminder_logic.py and the multi-relay dispatch of              *)
(* email/email_sender.py, as state machines.                               *)
(*                                                                         *)
(* DispatchSpec  : EmailSender.send_reminder_email / _send_email /         *)
(*                 _send_email_via_server, one step per statement group.   *)
(* ComposeSpec   : the same dispatcher over a single relay, with the       *)
(*                 templates and the reminder list varied.                 *)
(* PipelineSpec  : ReminderLogic.calculate_document_status (one document   *)
(*                 per step, the clock may roll over between documents)    *)
(*                 followed by ReminderLogic.filter_reminder_documents     *)
(*                 and ReminderLogic.generate_reminder_summary.            *)
(* RerunSpec     : the status engine and the filter run twice on a batch.  *)
(* ReportSpec    : the status engine followed by the report builder and    *)
(*                 by the CSV writer of LicenceManagementApp.run_report.   *)
(* SchedSpec     : scripts/scheduled_runner.py, the run and catchup tasks  *)
(*                 and the last-success file.                              *)
(***************************************************************************)
EXTENDS Integers, Sequences, FiniteSets, TLC

\* Python Optional[T]: None is the empty tuple, a value v is <<v>>.
None == <<>>
Some(v) == <<v>>
Val(o) == o[1]

(***************************************************************************)
(* Bounds                                                                  *)
(***************************************************************************)
\* longest backup_servers list explored
MaxBackups == 2
\* longest backup_servers list explored under the fairness condition
MaxLiveBackups == 1
\* longest document batch explored
MaxDocs == 2
\* latest expiry date explored (day numbers, the first "today" is day 0)
MaxDay == 1
\* how many times the calendar date may change while a batch is processed
MaxRollovers == 1
\* schedule slots the scheduler model runs through after the first one
MaxSlots == 3

VARIABLES
    \* ---- dispatcher (email_sender.py) ----
    servers,             \* [primary_server] + backup_servers
    max_retry_attempts,  \* EmailConfig.max_retry_attempts
    message,             \* the MIMEMultipart being sent: None or <<[From |-> ..]>>
    dpc,                 \* position of the dispatcher: "idle" when send_reminder_email
                         \* is entered, "test_email" when send_test_email is entered
    i,                   \* enumerate index of the for loop, 1-based; 0 before the loop
    server,              \* local `server` of _send_email_via_server: None or <<relay index>>
    transports,          \* relay indices whose SMTP transport is open
    exc,                 \* exception in flight inside the attempt, or "none"
    success,             \* value the attempt is about to return / has returned
    attempted,           \* relay indices in the order _send_email_via_server was called
    outcomes,            \* one record per returned attempt
    transmitted,         \* one record per completed server.sendmail
    suggestions,         \* calls of _log_failure_suggestions: the relay lists reported
    attempt_steps,       \* steps the attempts executed, in order: relay, step, exception raised
    result,              \* None or <<BOOLEAN>>: what _send_email returned
    template_config,     \* MailTemplateConfig: subject, body_html, table_row_html
    email_documents,     \* the reminder_documents argument of send_reminder_email
    \* ---- status engine and reminder filter (reminder_logic.py) ----
    documents,           \* the batch: sequence of PersonDocument records
    days_until_expiring_threshold,
    reminder_days,
    today,               \* what date.today() returns now
    rollovers,           \* number of date changes so far
    ppc,                 \* position of the pipeline
    idx,                 \* number of documents calculate_document_status has processed
    reminder_documents,  \* list returned by filter_reminder_documents (document indices)
    summary,             \* None or <<dict returned by generate_reminder_summary>>
    report_data,         \* None or <<rows returned by generate_status_report_data>>
    csv_rows,            \* None or <<rows write_csv_file wrote for run_report>>
    first_pass,          \* None or <<results of the first pass>> once a second pass runs
    \* ---- scheduler (scripts/scheduled_runner.py) ----
    clock,               \* index of the current schedule slot
    spc,                 \* position of the scheduled_runner process
    mode,                \* sys.argv[1]
    now,                 \* datetime.now() as main() read it
    state_file,          \* last_success_iso.txt: None (absent) or <<text>>
    exit_code,           \* None or <<code>> the process exited with
    file_before,         \* content of the file when write_last_success_time began
    crashed_in_write,    \* the process died inside write_last_success_time
    sched_log,           \* what the tasks did so far: catchup decisions and check results
    \* ---- application (main.py, config/config_manager.py) ----
    args,                \* the run mode main() parsed: reminder, test_email, create_sample
    app_config,          \* the AppConfig load_config built from config.yaml
    data_file,           \* the rows of the CSV data file
    apc,                 \* position of LicenceManagementApp
    config_errors,       \* None or <<list returned by validate_config>>
    email_errors,        \* None or <<list returned by validate_email_config>>
    exit_status          \* None or <<code>> main() returned

composeVars == <<template_config, email_documents>>
dispatchVars == <<servers, max_retry_attempts, message, dpc, i, server, transports,
                  exc, success, attempted, outcomes, transmitted, suggestions, result,
                  attempt_steps, template_config, email_documents>>
derivedVars == <<summary, report_data, csv_rows, first_pass>>
pipelineVars == <<documents, days_until_expiring_threshold, reminder_days, today,
                  rollovers, ppc, idx, reminder_documents,
                  summary, report_data, csv_rows, first_pass>>
schedVars == <<clock, spc, mode, now, state_file, exit_code, file_before, crashed_in_write,
               sched_log>>
appVars == <<args, app_config, data_file, apc, config_errors, email_errors, exit_status>>
vars == <<servers, max_retry_attempts, message, dpc, i, server, transports,
          exc, success, attempted, outcomes, transmitted, suggestions, result,
          attempt_steps, template_config, email_documents,
          documents, days_until_expiring_threshold, reminder_days, today,
          rollovers, ppc, idx, reminder_documents,
          summary, report_data, csv_rows, first_pass,
          clock, spc, mode, now, state_file, exit_code, file_before, crashed_in_write,
          sched_log,
          args, app_config, data_file, apc, config_errors, email_errors, exit_status>>

(***************************************************************************)
(* Dispatcher: configuration                                               *)
(***************************************************************************)
\* relay hosts by ordinal, as sequences of dot-separated labels; the first two are
\* the hosts of the default configuration (smtp.gmail.com, smtp.qq.com)
SmtpHosts ==
    << <<"smtp", "gmail", "com">>,
       <<"smtp", "QQ", "com">>,
       <<"mail", "example", "org">>,
       <<"smtp", "163", "com">> >>

\* str.lower() on the labels of a host
lower(host) ==
    [k \in 1..Len(host) |->
        IF host[k] = "QQ" THEN "qq" ELSE IF host[k] = "SMTP" THEN "smtp" ELSE host[k]]

\* `needle in haystack` for label sequences
contains(haystack, needle) ==
    \E k \in 1..(Len(haystack) - Len(needle) + 1) :
        SubSeq(haystack, k, k + Len(needle) - 1) = needle

\* SmtpServerConfig of the relay at ordinal k; every relay has its own account.
SmtpServerConfig(k, ssl, tls) ==
    [name |-> k, smtp_server |-> SmtpHosts[k], smtp_port |-> IF ssl THEN 465 ELSE 587,
     smtp_user |-> <<"user", k>>, smtp_password |-> <<"secret", k>>,
     sender_name |-> "LicenceSystem", use_ssl |-> ssl, use_tls |-> tls]

\* the three transport modes a relay can be configured with
TlsModes == {<<TRUE, FALSE>>, <<FALSE, TRUE>>, <<FALSE, FALSE>>}

\* every relay list [primary] + backups with at most MaxBackups backups; the
\* transport mode is chosen for the primary and for the first backup, a further
\* backup is configured like the first
ServerLists ==
    {[k \in 1..n |-> SmtpServerConfig(k, (IF k = 1 THEN p ELSE b)[1],
                                         (IF k = 1 THEN p ELSE b)[2])] :
        n \in 1..(MaxBackups + 1), p \in TlsModes, b \in TlsModes}

\* exception classes the smtplib calls of an attempt can raise
SMTPExceptionKinds == {"SMTPAuthenticationError", "SMTPRecipientsRefused",
                       "SMTPServerDisconnected", "SMTPConnectError", "SMTPException"}
\* (by the except clause that catches them; a subclass no clause names stands
\* under the first class of its ancestors that a clause names; smtplib raises
\* SMTPResponseException, a subclass of SMTPException, from every call that
\* reads a reply when a line of the reply is longer than it accepts)
\* the constructor: refused greeting, over-long greeting, connection closed
\* before the greeting, socket or TLS failure, a host name that cannot be encoded
ConnectRaises == {"SMTPConnectError", "SMTPException", "SMTPServerDisconnected",
                  "OSError", "Exception"}
\* STARTTLS not offered or refused or over-long reply, connection closed, TLS
\* handshake failure
StartTlsRaises == {"SMTPException", "SMTPServerDisconnected", "OSError"}
\* credentials refused, AUTH not offered or over-long reply, connection closed,
\* credentials that cannot be encoded
LoginRaises == {"SMTPAuthenticationError", "SMTPException", "SMTPServerDisconnected",
                "Exception"}
\* every recipient refused, sender or data refused, connection closed, an
\* address that cannot be encoded
SendmailRaises == {"SMTPRecipientsRefused", "SMTPException", "SMTPServerDisconnected",
                   "Exception"}
\* over-long reply to QUIT, connection closed
QuitRaises == {"SMTPException", "SMTPServerDisconnected"}

\* Python class hierarchy: the classes an exception of kind e is an instance of
Ancestors(e) ==
    {e} \cup (IF e \in SMTPExceptionKinds THEN {"SMTPException", "OSError", "Exception"}
              ELSE IF e = "OSError" THEN {"Exception"} ELSE {})

\* the except clauses of _send_email_via_server, in source order
Handlers ==
    << [catches |-> "SMTPAuthenticationError", class |-> "AuthFailure"],
       [catches |-> "SMTPRecipientsRefused",   class |-> "RecipientRejected"],
       [catches |-> "SMTPServerDisconnected",  class |-> "ConnectionDropped"],
       [catches |-> "SMTPConnectError",        class |-> "ConnectFailure"],
       [catches |-> "SMTPException",           class |-> "ProtocolError"],
       [catches |-> "OSError",                 class |-> "NetworkError"],
       [catches |-> "Exception",               class |-> "Unknown"] >>

\* the first except clause that matches the exception
Classify(e) ==
    LET k == CHOOSE h \in 1..Len(Handlers) :
                 /\ Handlers[h].catches \in Ancestors(e)
                 /\ \A g \in 1..(h - 1) : Handlers[g].catches \notin Ancestors(e)
    IN Handlers[k].class

\* _get_auth_error_suggestion: the advice is chosen by the relay host
get_auth_error_suggestion(server_config) ==
    IF contains(lower(server_config.smtp_server), <<"gmail", "com">>) THEN "gmail_app_password"
    ELSE IF contains(lower(server_config.smtp_server), <<"qq", "com">>) THEN "qq_auth_code"
    ELSE IF contains(lower(server_config.smtp_server), <<"163", "com">>) THEN "163_auth_code"
    ELSE "check_credentials"

\* _get_connection_error_suggestion
get_connection_error_suggestion(server_config) ==
    IF contains(lower(server_config.smtp_server), <<"gmail", "com">>) THEN "gmail_use_proxy"
    ELSE "check_network"

\* _get_network_error_suggestion
get_network_error_suggestion(server_config) == get_connection_error_suggestion(server_config)

\* the suggestion the matching except clause logs with the error, None if it logs none
Suggestion(e, server_config) ==
    LET class == Classify(e)
    IN IF class = "AuthFailure" THEN Some(get_auth_error_suggestion(server_config))
       ELSE IF class = "RecipientRejected" THEN Some("check_recipient_address")
       ELSE IF class \in {"ConnectionDropped", "ConnectFailure"}
            THEN Some(get_connection_error_suggestion(server_config))
       ELSE IF class = "NetworkError" THEN Some(get_network_error_suggestion(server_config))
       ELSE None

\* variant: only the primary relay is reported
log_failure_suggestions_PrimaryOnly(relays) ==
    [k \in 1..1 |->
        [name |-> relays[k].name,
         advice |-> IF contains(lower(relays[k].smtp_server), <<"gmail", "com">>)
                    THEN "gmail_unreachable"
                    ELSE IF contains(lower(relays[k].smtp_server), <<"qq", "com">>)
                    THEN "qq_enable_smtp"
                    ELSE "check_config_and_network"]]

\* _log_failure_suggestions: for every configured relay, in order, its name and
\* the advice chosen by its host
log_failure_suggestions(relays) ==
    [k \in 1..Len(relays) |->
        [name |-> relays[k].name,
         advice |-> IF contains(lower(relays[k].smtp_server), <<"gmail", "com">>)
                    THEN "gmail_unreachable"
                    ELSE IF contains(lower(relays[k].smtp_server), <<"qq", "com">>)
                    THEN "qq_enable_smtp"
                    ELSE "check_config_and_network"]]

\* message['From'] as _create_email_message formats it: "sender_name <smtp_user>"
FormattedFrom(server_config) == <<server_config.sender_name, server_config.smtp_user>>
\* message['From'] as the attempt rewrites it: the bare address
BareFrom(server_config) == <<server_config.smtp_user>>

(***************************************************************************)
(* Status engine and reminder filter: data                                 *)
(***************************************************************************)
\* document status labels: "已过期", "即将过期", "有效", "未知"
EXPIRED == "Expired"
EXPIRING_SOON == "ExpiringSoon"
VALID == "Valid"
UNKNOWN == "Unknown"

\* the characters of the remark "已办理", and the whitespace str.strip() removes
Sentinel == <<"yi", "ban", "li">>
Whitespace == {" ", "\t"}

\* remarks a document may carry (each a sequence of characters)
RemarkPool ==
    { <<>>,
      Sentinel,
      <<" ">> \o Sentinel \o <<"\t", " ">>,
      Sentinel \o <<"x">> }

\* expiry dates: absent, yesterday, today, ... MaxDay
ExpiryDates == {None} \cup {Some(d) : d \in (0 - 1)..MaxDay}
ThresholdValues == {0, 1}
ReminderDayLists == {<<>>, <<0>>, <<1, 0>>, <<0, 1>>}

\* PersonDocument as the ingestion leaves it: computed fields are None
PersonDocument(expiry, remarks) ==
    [person_name |-> "person", document_type |-> "licence",
     expiry_date |-> expiry, remarks |-> remarks,
     days_left |-> None, status |-> None, needs_reminder |-> None]

Batches ==
    UNION {[1..n -> {PersonDocument(e, r) : e \in ExpiryDates, r \in RemarkPool}] :
             n \in 0..MaxDocs}

(***************************************************************************)
(* Status engine and reminder filter: functions                            *)
(***************************************************************************)
\* DateUtils.calculate_days_left for a date object: (expiry_date - date.today()).days
calculate_days_left(expiry_date, on_day) == expiry_date - on_day

\* variant: the threshold day itself already counts as valid
get_document_status_Exclusive(days_left, threshold) ==
    IF days_left < 0 THEN EXPIRED
    ELSE IF days_left < threshold THEN EXPIRING_SOON
    ELSE VALID

\* ReminderLogic._get_document_status
get_document_status(days_left, threshold) ==
    IF days_left < 0 THEN EXPIRED
    ELSE IF days_left <= threshold THEN EXPIRING_SOON
    ELSE VALID

\* the loop body of calculate_document_status for one document
calculate_one(doc, threshold, on_day) ==
    IF doc.expiry_date # None
    THEN LET dl == calculate_days_left(Val(doc.expiry_date), on_day)
         IN [doc EXCEPT !.days_left = Some(dl),
                        !.status = Some(get_document_status(dl, threshold))]
    ELSE [doc EXCEPT !.days_left = None, !.status = Some(UNKNOWN)]

\* str.strip(): drop leading and trailing whitespace
RECURSIVE lstrip(_)
lstrip(s) == IF s # <<>> /\ Head(s) \in Whitespace THEN lstrip(Tail(s)) ELSE s
RECURSIVE rstrip(_)
rstrip(s) ==
    IF s # <<>> /\ s[Len(s)] \in Whitespace THEN rstrip(SubSeq(s, 1, Len(s) - 1)) ELSE s
strip(s) == rstrip(lstrip(s))

\* variant: the remark is compared without trimming
is_handled_NoStrip(remarks) == remarks # <<>> /\ remarks = Sentinel

\* `doc.remarks and doc.remarks.strip() == "已办理"`
is_handled(remarks) == remarks # <<>> /\ strip(remarks) = Sentinel

\* variant: the first configured reminder day is taken for the largest
max_First(s) == s[1]

\* max(reminder_days)
RECURSIVE max(_)
max(s) ==
    IF Len(s) = 1 THEN s[1]
    ELSE LET m == max(SubSeq(s, 1, Len(s) - 1))
         IN IF s[Len(s)] > m THEN s[Len(s)] ELSE m

\* variant: the empty reminder list is tested before the expiry test
needs_reminder_EmptyFirst(days_left, days) ==
    IF days = <<>> THEN FALSE
    ELSE IF days_left < 0 THEN TRUE
    ELSE days_left <= max(days)

\* ReminderLogic._needs_reminder
needs_reminder(days_left, days) ==
    IF days_left < 0 THEN TRUE
    ELSE IF days = <<>> THEN FALSE
    ELSE days_left <= max(days)

\* variant: a missing days_left is replaced by the sort sentinel before the test
filter_one_SentinelDays(doc, days) ==
    IF is_handled(doc.remarks) THEN FALSE
    ELSE needs_reminder(IF doc.days_left # None THEN Val(doc.days_left) ELSE 0 - 999, days)

\* variant: a document without days_left is kept unless it is handled
filter_one_KeepsUndated(doc, days) ==
    IF is_handled(doc.remarks) THEN FALSE
    ELSE IF doc.days_left = None THEN TRUE
    ELSE needs_reminder(Val(doc.days_left), days)

\* the loop body of filter_reminder_documents: the value doc.needs_reminder gets
filter_one(doc, days) ==
    IF doc.days_left # None
    THEN IF is_handled(doc.remarks) THEN FALSE
         ELSE needs_reminder(Val(doc.days_left), days)
    ELSE FALSE

\* key=lambda x: x.days_left if x.days_left is not None else -999
sort_key(doc) == IF doc.days_left # None THEN Val(doc.days_left) ELSE 0 - 999

\* list.sort(key=...): stable, ascending; docs maps a list element to its document
RECURSIVE insert_sorted(_, _, _)
insert_sorted(x, s, docs) ==
    IF s = <<>> THEN <<x>>
    ELSE IF sort_key(docs[x]) < sort_key(docs[Head(s)]) THEN <<x>> \o s
    ELSE <<Head(s)>> \o insert_sorted(x, Tail(s), docs)
\* variant: the list is returned in input order
list_sort_Unsorted(s, docs) == s

RECURSIVE list_sort(_, _)
list_sort(s, docs) ==
    IF s = <<>> THEN <<>>
    ELSE insert_sorted(s[Len(s)], list_sort(SubSeq(s, 1, Len(s) - 1), docs), docs)

\* the documents appended to reminder_documents, in input order
RECURSIVE appended(_, _)
appended(docs, n) ==
    IF n = 0 THEN <<>>
    ELSE IF docs[n].needs_reminder = Some(TRUE) THEN Append(appended(docs, n - 1), n)
    ELSE appended(docs, n - 1)

(***************************************************************************)
(* Composer: templates and str.format                                      *)
(***************************************************************************)
\* a template is a sequence of literal chunks and {name} replacement fields
Lit(text) == [kind |-> "lit", text |-> text]
Field(name) == [kind |-> "field", text |-> name]

\* MailTemplateConfig
MailTemplateConfig(subject, body_html, table_row_html) ==
    [subject |-> subject, body_html |-> body_html, table_row_html |-> table_row_html]

SubjectTemplates ==
    { <<Lit("reminder"), Field("count"), Field("today_date")>>,
      <<Lit("reminder"), Field("today_date")>>,
      <<Lit("reminder")>>,
      <<Field("count"), Field("today_date"), Field("name")>> }
BodyTemplates ==
    { <<Lit("table"), Field("table_rows")>>,
      <<Lit("table")>> }
RowTemplates ==
    { <<Field("person_name"), Field("document_type"), Field("expiry_date"),
        Field("color"), Field("days_left"), Field("remarks")>>,
      <<Field("person_name"), Field("document_type"), Field("expiry_date"),
        Field("days_left"), Field("remarks")>> }

TemplateConfigs ==
    {MailTemplateConfig(s, b, r) : s \in SubjectTemplates, b \in BodyTemplates, r \in RowTemplates}

\* the templates of the default configuration: every placeholder is present
DefaultTemplate ==
    MailTemplateConfig(
        <<Lit("reminder"), Field("count"), Field("today_date")>>,
        <<Lit("table"), Field("table_rows")>>,
        <<Field("person_name"), Field("document_type"), Field("expiry_date"),
          Field("color"), Field("days_left"), Field("remarks")>>)

\* a template the configuration file sets to null: template_data.get returns
\* None for it, which is not a string
NoneTemplate == <<[kind |-> "none", text |-> ""]>>

\* template.format(**kwargs) raises AttributeError when the template is None and
\* KeyError exactly when a replacement field names no keyword argument; a
\* keyword argument no field names is ignored
format_raises(template, names) ==
    \/ template = NoneTemplate
    \/ \E k \in 1..Len(template) : template[k].kind = "field" /\ template[k].text \notin names

\* str.format(**kwargs): literal chunks are copied, each field becomes its value
format(template, kwargs) ==
    [k \in 1..Len(template) |->
        IF template[k].kind = "field"
        THEN [field |-> template[k].text, value |-> kwargs[template[k].text]]
        ELSE [field |-> "", value |-> template[k].text]]

\* variant: the orange band ends before day 7
get_display_color_ShortWeek(days_left) ==
    IF days_left = None THEN "#666666"
    ELSE IF Val(days_left) < 0 THEN "#dc3545"
    ELSE IF Val(days_left) <= 1 THEN "#dc3545"
    ELSE IF Val(days_left) < 7 THEN "#fd7e14"
    ELSE IF Val(days_left) <= 30 THEN "#ffc107"
    ELSE "#28a745"

\* ReminderLogic.get_display_color
get_display_color(days_left) ==
    IF days_left = None THEN "#666666"
    ELSE IF Val(days_left) < 0 THEN "#dc3545"
    ELSE IF Val(days_left) <= 1 THEN "#dc3545"
    ELSE IF Val(days_left) <= 7 THEN "#fd7e14"
    ELSE IF Val(days_left) <= 30 THEN "#ffc107"
    ELSE "#28a745"

\* EmailSender._format_days_left_display
format_days_left_display(days_left) ==
    IF days_left = None THEN <<"unknown">>
    ELSE IF Val(days_left) < 0 THEN <<"expired", 0 - Val(days_left), "days">>
    ELSE IF Val(days_left) = 0 THEN <<"due_today">>
    ELSE IF Val(days_left) = 1 THEN <<"due_tomorrow">>
    ELSE <<"due_in", Val(days_left), "days">>

\* DateUtils.format_date(doc.expiry_date) if doc.expiry_date else '未知'
expiry_date_display(expiry_date) ==
    IF expiry_date # None THEN <<"ymd", Val(expiry_date)>> ELSE <<"unknown">>

\* the keyword arguments of the three format calls
SubjectKwargs == {"count", "today_date"}
RowKwargs == {"person_name", "document_type", "expiry_date", "days_left", "remarks", "color"}
BodyKwargs == {"table_rows"}

\* _generate_subject
generate_subject_raises(template) == format_raises(template.subject, SubjectKwargs)
generate_subject(template, reminder_list, on_day) ==
    format(template.subject,
           [n \in SubjectKwargs |->
               IF n = "count" THEN <<Len(reminder_list)>> ELSE <<"ymd", on_day>>])

\* the row of one document in _generate_html_body
row_html(template, doc) ==
    format(template.table_row_html,
           [n \in RowKwargs |->
               IF n = "person_name" THEN <<doc.person_name>>
               ELSE IF n = "document_type" THEN <<doc.document_type>>
               ELSE IF n = "expiry_date" THEN expiry_date_display(doc.expiry_date)
               ELSE IF n = "days_left" THEN format_days_left_display(doc.days_left)
               ELSE IF n = "remarks" THEN doc.remarks
               ELSE <<get_display_color(doc.days_left)>>])

\* _generate_html_body: one row per document, joined, then the body is formatted
generate_html_body_raises(template) ==
    \/ format_raises(template.table_row_html, RowKwargs)
    \/ format_raises(template.body_html, BodyKwargs)
generate_html_body(template, reminder_list) ==
    format(template.body_html,
           [n \in BodyKwargs |->
               [k \in 1..Len(reminder_list) |-> row_html(template, reminder_list[k])]])

\* _create_email_message: Subject, From of the given relay, and the HTML part
create_email_message(subject, html_body, server_config) ==
    [From |-> FormattedFrom(server_config), Subject |-> subject, Body |-> html_body]

\* days_left of the documents a reminder list is built from: both sides of
\* every boundary of the colour bands
DaysLeftSamples == {0 - 1, 0, 1, 2, 7, 8, 30, 31}

\* a document as the status engine and the filter leave it when today is day 0
EmailDocument(expiry_date) ==
    LET doc == calculate_one(PersonDocument(expiry_date, <<>>), 1, 0)
    IN [doc EXCEPT !.needs_reminder = Some(filter_one(doc, <<31>>))]

\* the lists handed to send_reminder_email, which renders whatever documents it
\* is given, a document without days_left included
EmailDocumentLists ==
    UNION {[1..n -> {EmailDocument(None)} \cup {EmailDocument(Some(d)) : d \in DaysLeftSamples}] :
              n \in 0..MaxDocs}

(***************************************************************************)
(* Dispatcher: actions                                                     *)
(***************************************************************************)
\* the status engine is not running
PipelineIdle ==
    /\ documents = <<>>
    /\ days_until_expiring_threshold = 0
    /\ reminder_days = <<>>
    /\ today = 0
    /\ rollovers = 0
    /\ ppc = "off"
    /\ idx = 0
    /\ reminder_documents = None
    /\ summary = None
    /\ report_data = None
    /\ csv_rows = None
    /\ first_pass = None

\* the application is not running
AppIdle ==
    /\ args = "none"
    /\ app_config = None
    /\ data_file = <<>>
    /\ apc = "off"
    /\ config_errors = None
    /\ email_errors = None
    /\ exit_status = None

\* no scheduled task is running
SchedIdle ==
    /\ clock = 0
    /\ spc = "off"
    /\ mode = "none"
    /\ now = None
    /\ state_file = None
    /\ exit_code = None
    /\ file_before = None
    /\ crashed_in_write = FALSE
    /\ sched_log = <<>>

DispatchInit ==
    /\ PipelineIdle
    /\ SchedIdle
    /\ AppIdle
    /\ servers \in ServerLists
    /\ max_retry_attempts = 3
    /\ message = None
    /\ dpc = "idle"
    /\ i = 0
    /\ server = None
    /\ transports = {}
    /\ exc = "none"
    /\ success = FALSE
    /\ attempted = <<>>
    /\ outcomes = <<>>
    /\ transmitted = <<>>
    /\ suggestions = <<>>
    /\ attempt_steps = <<>>
    /\ result = None
    /\ template_config = DefaultTemplate
    /\ email_documents = <<EmailDocument(Some(0 - 1))>>

\* the dispatcher over one relay, for every template set and every reminder list
ComposeInit ==
    /\ PipelineIdle
    /\ SchedIdle
    /\ AppIdle
    /\ servers \in {s \in ServerLists : Len(s) = 1}
    /\ max_retry_attempts = 3
    /\ message = None
    /\ dpc = "idle"
    /\ i = 0
    /\ server = None
    /\ transports = {}
    /\ exc = "none"
    /\ success = FALSE
    /\ attempted = <<>>
    /\ outcomes = <<>>
    /\ transmitted = <<>>
    /\ suggestions = <<>>
    /\ attempt_steps = <<>>
    /\ result = None
    /\ template_config \in TemplateConfigs
    /\ email_documents \in EmailDocumentLists

\* send_reminder_email: nothing to send returns True; otherwise compose the subject
\* and the body, build the message from the primary relay and call _send_email;
\* an exception of the composition is caught and the call returns False
SendReminderEmail ==
    /\ dpc = "idle"
    /\ IF email_documents = <<>>
       THEN /\ result' = Some(TRUE)
            /\ dpc' = "done"
            /\ UNCHANGED message
       ELSE IF \/ generate_subject_raises(template_config)
               \/ generate_html_body_raises(template_config)
       THEN /\ result' = Some(FALSE)
            /\ dpc' = "done"
            /\ UNCHANGED message
       ELSE /\ message' = Some(create_email_message(
                                generate_subject(template_config, email_documents, today),
                                generate_html_body(template_config, email_documents),
                                servers[1]))
            /\ dpc' = "loop"
            /\ UNCHANGED result
    /\ i' = 0
    /\ UNCHANGED <<servers, max_retry_attempts, server, transports, exc, success,
                   attempted, outcomes, transmitted, suggestions>>
    /\ UNCHANGED attempt_steps
    /\ UNCHANGED <<composeVars, pipelineVars, schedVars, appVars>>

\* send_test_email: the fixed subject and a body that carries the send time are
\* made into a message for the primary relay, which _send_email dispatches
SendTestEmail ==
    /\ dpc = "test_email"
    /\ message' = Some(create_email_message(
                         format(<<Lit("test_subject")>>, <<>>),
                         format(<<Lit("test_body"), Field("send_time")>>,
                                [n \in {"send_time"} |-> <<"ymdhms", today>>]),
                         servers[1]))
    /\ dpc' = "loop"
    /\ i' = 0
    /\ UNCHANGED <<servers, max_retry_attempts, server, transports, exc, success,
                   attempted, outcomes, transmitted, suggestions, result>>
    /\ UNCHANGED attempt_steps
    /\ UNCHANGED <<composeVars, pipelineVars, schedVars, appVars>>

\* _send_email, head of `for i, server_config in enumerate(servers)`:
\* next relay, or fall out of the loop, report and return False
ForNext ==
    /\ dpc = "loop"
    /\ IF i < Len(servers)
       THEN /\ i' = i + 1
            /\ attempted' = Append(attempted, i + 1)
            /\ server' = None
            /\ exc' = "none"
            /\ dpc' = "connect"
            /\ UNCHANGED <<suggestions, result>>
       ELSE /\ suggestions' = Append(suggestions, log_failure_suggestions(servers))
            /\ result' = Some(FALSE)
            /\ dpc' = "done"
            /\ UNCHANGED <<i, attempted, server, exc>>
    /\ UNCHANGED <<servers, max_retry_attempts, message, transports, success,
                   outcomes, transmitted>>
    /\ UNCHANGED attempt_steps
    /\ UNCHANGED <<composeVars, pipelineVars, schedVars, appVars>>

\* smtplib.SMTP_SSL(...) / smtplib.SMTP(...): the constructor connects
Connect ==
    /\ dpc = "connect"
    /\ \/ /\ server' = Some(i)
          /\ transports' = transports \cup {i}
          /\ dpc' = IF ~servers[i].use_ssl /\ servers[i].use_tls THEN "starttls" ELSE "login"
          /\ UNCHANGED exc
       \/ /\ exc' \in ConnectRaises
          /\ dpc' = "except"
          /\ UNCHANGED <<server, transports>>
    /\ UNCHANGED <<servers, max_retry_attempts, message, i, success, attempted,
                   outcomes, transmitted, suggestions, result>>
    /\ attempt_steps' = Append(attempt_steps,
                            [relay |-> i, step |-> "connect", raised |-> exc'])
    /\ UNCHANGED <<composeVars, pipelineVars, schedVars, appVars>>

\* server.starttls(...); the socket is already closed when the call raises
\* SMTPServerDisconnected, when the TLS handshake fails (OSError) and when the
\* reply was over-long (SMTPException); a relay that does not offer STARTTLS
\* or refuses it (SMTPException) leaves the connection open
StartTls ==
    /\ dpc = "starttls"
    /\ \/ /\ dpc' = "login"
          /\ UNCHANGED <<exc, transports>>
       \/ /\ exc' \in StartTlsRaises
          /\ dpc' = "except"
          /\ \/ /\ exc' = "SMTPException"
                /\ UNCHANGED transports
             \/ transports' = transports \ {Val(server)}
    /\ UNCHANGED <<servers, max_retry_attempts, message, i, server, success,
                   attempted, outcomes, transmitted, suggestions, result>>
    /\ attempt_steps' = Append(attempt_steps,
                            [relay |-> i, step |-> "starttls", raised |-> exc'])
    /\ UNCHANGED <<composeVars, pipelineVars, schedVars, appVars>>

\* variant: a refused login is ignored and the attempt goes on
Login_IgnoresRefusal ==
    /\ dpc = "login"
    /\ \/ /\ dpc' = "rewrite"
          /\ UNCHANGED <<exc, transports>>
       \/ /\ exc' \in LoginRaises
          /\ dpc' = "rewrite"
          /\ \/ /\ exc' # "SMTPServerDisconnected"
                /\ UNCHANGED transports
             \/ /\ exc' \in {"SMTPServerDisconnected", "SMTPException"}
                /\ transports' = transports \ {Val(server)}
    /\ UNCHANGED <<servers, max_retry_attempts, message, i, server, success,
                   attempted, outcomes, transmitted, suggestions, result>>
    /\ attempt_steps' = Append(attempt_steps,
                            [relay |-> i, step |-> "login", raised |-> exc'])
    /\ UNCHANGED <<composeVars, pipelineVars, schedVars, appVars>>

\* server.login(smtp_user, smtp_password); the socket is already closed when the
\* call raises SMTPServerDisconnected and when the reply was over-long
\* (SMTPException); refused credentials, a relay that does not offer AUTH
\* (SMTPException) and an encoding failure leave the connection open
Login ==
    /\ dpc = "login"
    /\ \/ /\ dpc' = "rewrite"
          /\ UNCHANGED <<exc, transports>>
       \/ /\ exc' \in LoginRaises
          /\ dpc' = "except"
          /\ \/ /\ exc' # "SMTPServerDisconnected"
                /\ UNCHANGED transports
             \/ /\ exc' \in {"SMTPServerDisconnected", "SMTPException"}
                /\ transports' = transports \ {Val(server)}
    /\ UNCHANGED <<servers, max_retry_attempts, message, i, server, success,
                   attempted, outcomes, transmitted, suggestions, result>>
    /\ attempt_steps' = Append(attempt_steps,
                            [relay |-> i, step |-> "login", raised |-> exc'])
    /\ UNCHANGED <<composeVars, pipelineVars, schedVars, appVars>>

\* variant: the header built by _create_email_message is kept when present
RewriteFrom_KeepsExisting ==
    /\ dpc = "rewrite"
    /\ message' = message
    /\ dpc' = "sendmail"
    /\ UNCHANGED <<servers, max_retry_attempts, i, server, transports, exc, success,
                   attempted, outcomes, transmitted, suggestions, result>>
    /\ attempt_steps' = Append(attempt_steps,
                            [relay |-> i, step |-> "rewrite", raised |-> "none"])
    /\ UNCHANGED <<composeVars, pipelineVars, schedVars, appVars>>

\* del message['From']; message['From'] = server_config.smtp_user
RewriteFrom ==
    /\ dpc = "rewrite"
    /\ message' = Some([Val(message) EXCEPT !.From = BareFrom(servers[i])])
    /\ dpc' = "sendmail"
    /\ UNCHANGED <<servers, max_retry_attempts, i, server, transports, exc, success,
                   attempted, outcomes, transmitted, suggestions, result>>
    /\ attempt_steps' = Append(attempt_steps,
                            [relay |-> i, step |-> "rewrite", raised |-> "none"])
    /\ UNCHANGED <<composeVars, pipelineVars, schedVars, appVars>>

\* text = message.as_string(); server.sendmail(smtp_user, receivers, text);
\* the socket is already closed when the call raises SMTPServerDisconnected,
\* when the relay answered 421 to a command (a refusal) and when a reply was
\* over-long (SMTPException); a refusal with another code and an encoding
\* failure leave the connection open
Sendmail ==
    /\ dpc = "sendmail"
    /\ \/ /\ transmitted' = Append(transmitted, [relay |-> i, From |-> Val(message).From])
          /\ dpc' = "quit"
          /\ UNCHANGED <<exc, transports>>
       \/ /\ exc' \in SendmailRaises
          /\ dpc' = "except"
          /\ \/ /\ exc' # "SMTPServerDisconnected"
                /\ UNCHANGED transports
             \/ /\ exc' # "Exception"
                /\ transports' = transports \ {Val(server)}
          /\ UNCHANGED transmitted
    /\ UNCHANGED <<servers, max_retry_attempts, message, i, server, success,
                   attempted, outcomes, suggestions, result>>
    /\ attempt_steps' = Append(attempt_steps,
                            [relay |-> i, step |-> "sendmail", raised |-> exc'])
    /\ UNCHANGED <<composeVars, pipelineVars, schedVars, appVars>>

\* server.quit() after the send, then `return True`; quit releases the socket
\* whether it returns or raises
Quit ==
    /\ dpc = "quit"
    /\ transports' = transports \ {Val(server)}
    /\ \/ /\ success' = TRUE
          /\ dpc' = "finally"
          /\ UNCHANGED exc
       \/ /\ exc' \in QuitRaises
          /\ dpc' = "except"
          /\ UNCHANGED success
    /\ UNCHANGED <<servers, max_retry_attempts, message, i, server, attempted,
                   outcomes, transmitted, suggestions, result>>
    /\ attempt_steps' = Append(attempt_steps,
                            [relay |-> i, step |-> "quit", raised |-> exc'])
    /\ UNCHANGED <<composeVars, pipelineVars, schedVars, appVars>>

\* variant: a failure no except clause names is re-raised out of the attempt
Except_ReraisesUnknown ==
    /\ dpc = "except"
    /\ success' = FALSE
    /\ dpc' = IF Classify(exc) = "Unknown" THEN "raised" ELSE "finally"
    /\ UNCHANGED <<servers, max_retry_attempts, message, i, server, transports, exc,
                   attempted, outcomes, transmitted, suggestions, result>>
    /\ UNCHANGED attempt_steps
    /\ UNCHANGED <<composeVars, pipelineVars, schedVars, appVars>>

\* the except clauses: log the classified failure, `return False`
Except ==
    /\ dpc = "except"
    /\ success' = FALSE
    /\ dpc' = "finally"
    /\ UNCHANGED <<servers, max_retry_attempts, message, i, server, transports, exc,
                   attempted, outcomes, transmitted, suggestions, result>>
    /\ UNCHANGED attempt_steps
    /\ UNCHANGED <<composeVars, pipelineVars, schedVars, appVars>>

\* variant: no finally clause, the connection is only closed by the quit after the send
Finally_NoQuit ==
    /\ dpc = "finally"
    /\ transports' = transports
    /\ outcomes' = Append(outcomes,
                     [relay |-> i, ok |-> success, opened |-> server # None,
                      class |-> IF success THEN "none" ELSE Classify(exc),
                      hint |-> IF success THEN None ELSE Suggestion(exc, servers[i])])
    /\ dpc' = "returned"
    /\ UNCHANGED <<servers, max_retry_attempts, message, i, server, exc, success,
                   attempted, transmitted, suggestions, result>>
    /\ UNCHANGED attempt_steps
    /\ UNCHANGED <<composeVars, pipelineVars, schedVars, appVars>>

\* finally: if server is not None: try server.quit() except: pass; the attempt returns
Finally ==
    /\ dpc = "finally"
    /\ transports' = IF server # None THEN transports \ {Val(server)} ELSE transports
    /\ outcomes' = Append(outcomes,
                     [relay |-> i, ok |-> success, opened |-> server # None,
                      class |-> IF success THEN "none" ELSE Classify(exc),
                      hint |-> IF success THEN None ELSE Suggestion(exc, servers[i])])
    /\ dpc' = "returned"
    /\ UNCHANGED <<servers, max_retry_attempts, message, i, server, exc, success,
                   attempted, transmitted, suggestions, result>>
    /\ UNCHANGED attempt_steps
    /\ UNCHANGED <<composeVars, pipelineVars, schedVars, appVars>>

\* variant: the loop does not return on success
AttemptReturned_NoEarlyReturn ==
    /\ dpc = "returned"
    /\ dpc' = "loop"
    /\ UNCHANGED <<servers, max_retry_attempts, message, i, server, transports, exc,
                   success, attempted, outcomes, transmitted, suggestions, result>>
    /\ UNCHANGED attempt_steps
    /\ UNCHANGED <<composeVars, pipelineVars, schedVars, appVars>>

\* variant: the first failed relay ends the dispatch
AttemptReturned_NoFailover ==
    /\ dpc = "returned"
    /\ result' = Some(success)
    /\ dpc' = "done"
    /\ UNCHANGED <<servers, max_retry_attempts, message, i, server, transports, exc,
                   success, attempted, outcomes, transmitted, suggestions>>
    /\ UNCHANGED attempt_steps
    /\ UNCHANGED <<composeVars, pipelineVars, schedVars, appVars>>

\* _send_email: `if success: return True`, else go on with the next relay
AttemptReturned ==
    /\ dpc = "returned"
    /\ IF success
       THEN /\ result' = Some(TRUE)
            /\ dpc' = "done"
       ELSE /\ dpc' = "loop"
            /\ UNCHANGED result
    /\ UNCHANGED <<servers, max_retry_attempts, message, i, server, transports, exc,
                   success, attempted, outcomes, transmitted, suggestions>>
    /\ UNCHANGED attempt_steps
    /\ UNCHANGED <<composeVars, pipelineVars, schedVars, appVars>>

(***************************************************************************)
(* Status engine and reminder filter: actions                              *)
(***************************************************************************)
\* the dispatcher is not running
DispatchIdle ==
    /\ servers = <<>>
    /\ max_retry_attempts = 3
    /\ message = None
    /\ dpc = "off"
    /\ i = 0
    /\ server = None
    /\ transports = {}
    /\ exc = "none"
    /\ success = FALSE
    /\ attempted = <<>>
    /\ outcomes = <<>>
    /\ transmitted = <<>>
    /\ suggestions = <<>>
    /\ attempt_steps = <<>>
    /\ result = None
    /\ template_config = DefaultTemplate
    /\ email_documents = <<>>

PipelineInit ==
    /\ DispatchIdle
    /\ SchedIdle
    /\ AppIdle
    /\ documents \in Batches
    /\ days_until_expiring_threshold \in ThresholdValues
    /\ reminder_days \in ReminderDayLists
    /\ today = 0
    /\ rollovers = 0
    /\ ppc = "status"
    /\ idx = 0
    /\ reminder_documents = None
    /\ summary = None
    /\ report_data = None
    /\ csv_rows = None
    /\ first_pass = None

\* calculate_document_status, one iteration of `for doc in documents`
CalculateDocumentStatus ==
    /\ ppc = "status"
    /\ idx < Len(documents)
    /\ idx' = idx + 1
    /\ documents' = [documents EXCEPT ![idx + 1] =
                        calculate_one(documents[idx + 1], days_until_expiring_threshold, today)]
    /\ UNCHANGED <<days_until_expiring_threshold, reminder_days, today, rollovers, ppc,
                   reminder_documents>>
    /\ UNCHANGED <<derivedVars, dispatchVars, schedVars, appVars>>

\* calculate_document_status returns the batch
CalculateDocumentStatusReturn ==
    /\ ppc = "status"
    /\ idx = Len(documents)
    /\ ppc' = "filter"
    /\ UNCHANGED <<documents, days_until_expiring_threshold, reminder_days, today,
                   rollovers, idx, reminder_documents>>
    /\ UNCHANGED <<derivedVars, dispatchVars, schedVars, appVars>>

\* midnight passes while the batch is being processed: date.today() changes
DateRollover ==
    /\ ppc = "status"
    /\ rollovers < MaxRollovers
    /\ today' = today + 1
    /\ rollovers' = rollovers + 1
    /\ UNCHANGED <<documents, days_until_expiring_threshold, reminder_days, ppc, idx,
                   reminder_documents>>
    /\ UNCHANGED <<derivedVars, dispatchVars, schedVars, appVars>>

\* variant: the reminder list is kept between calls instead of starting empty
FilterReminderDocuments_Accumulates ==
    /\ ppc = "filter"
    /\ documents' = [k \in 1..Len(documents) |->
                       [documents[k] EXCEPT
                          !.needs_reminder = Some(filter_one(documents[k], reminder_days))]]
    /\ reminder_documents' =
           Some(list_sort((IF first_pass # None
                           THEN Val(Val(first_pass).reminder_documents) ELSE <<>>)
                              \o appended(documents', Len(documents)), documents'))
    /\ ppc' = "done"
    /\ UNCHANGED <<days_until_expiring_threshold, reminder_days, today, rollovers, idx>>
    /\ UNCHANGED <<derivedVars, dispatchVars, schedVars, appVars>>

\* filter_reminder_documents: flag every document, collect the flagged ones, sort
FilterReminderDocuments ==
    /\ ppc = "filter"
    /\ documents' = [k \in 1..Len(documents) |->
                       [documents[k] EXCEPT
                          !.needs_reminder = Some(filter_one(documents[k], reminder_days))]]
    /\ reminder_documents' =
           Some(list_sort(appended(documents', Len(documents)), documents'))
    /\ ppc' = "done"
    /\ UNCHANGED <<days_until_expiring_threshold, reminder_days, today, rollovers, idx>>
    /\ UNCHANGED <<derivedVars, dispatchVars, schedVars, appVars>>

\* variant: only a strictly positive days_left counts as expiring
summary_bucket_PositiveOnly(days_left) ==
    IF days_left < 0 THEN "expired" ELSE IF days_left > 0 THEN "expiring" ELSE "none"

\* variant: a document that expires today counts as expired
summary_bucket_TodayExpired(days_left) ==
    IF days_left <= 0 THEN "expired" ELSE "expiring"

\* generate_reminder_summary: `if days_left < 0: expired_count += 1`,
\* `else: expiring_count += 1`
summary_bucket(days_left) ==
    IF days_left < 0 THEN "expired" ELSE "expiring"

\* the loop of generate_reminder_summary over the first n list elements:
\* <<expired_count, expiring_count>>; a document without days_left is skipped
RECURSIVE count_by_days_left(_, _)
count_by_days_left(docs, n) ==
    IF n = 0 THEN <<0, 0>>
    ELSE LET c == count_by_days_left(docs, n - 1)
             days_left == docs[n].days_left
         IN IF days_left # None
            THEN <<c[1] + (IF summary_bucket(Val(days_left)) = "expired" THEN 1 ELSE 0),
                   c[2] + (IF summary_bucket(Val(days_left)) = "expiring" THEN 1 ELSE 0)>>
            ELSE c

\* generate_reminder_summary: the counts of the returned dict
generate_reminder_summary(docs) ==
    IF docs = <<>>
    THEN [total_count |-> 0, expired_count |-> 0, expiring_count |-> 0]
    ELSE [total_count |-> Len(docs),
          expired_count |-> count_by_days_left(docs, Len(docs))[1],
          expiring_count |-> count_by_days_left(docs, Len(docs))[2]]

\* the reminder list as a list of documents
ReminderList == [k \in 1..Len(Val(reminder_documents)) |-> documents[Val(reminder_documents)[k]]]

\* generate_reminder_summary(reminder_documents)
GenerateReminderSummary ==
    /\ ppc = "done"
    /\ summary' = Some(generate_reminder_summary(ReminderList))
    /\ ppc' = "summarized"
    /\ UNCHANGED <<documents, days_until_expiring_threshold, reminder_days, today,
                   rollovers, idx, reminder_documents, report_data, csv_rows, first_pass>>
    /\ UNCHANGED <<dispatchVars, schedVars, appVars>>

\* the status engine and the filter are called again on the same document objects
Rerun ==
    /\ ppc = "done"
    /\ first_pass = None
    /\ first_pass' = Some([documents |-> documents, reminder_documents |-> reminder_documents])
    /\ reminder_documents' = None
    /\ idx' = 0
    /\ ppc' = "status"
    /\ UNCHANGED <<documents, days_until_expiring_threshold, reminder_days, today,
                   rollovers, summary, report_data, csv_rows>>
    /\ UNCHANGED <<dispatchVars, schedVars, appVars>>

\* a row of generate_status_report_data; an empty cell ('') is None
report_row(doc) ==
    [person_name |-> doc.person_name, document_type |-> doc.document_type,
     expiry_date |-> doc.expiry_date,
     days_left |-> doc.days_left,
     status |-> IF doc.status # None THEN Val(doc.status) ELSE "",
     remarks |-> doc.remarks]

\* variant: the rows are ordered by status only
report_sort_key_StatusOnly(row) ==
    << IF row.status = EXPIRED THEN 0 ELSE IF row.status = EXPIRING_SOON THEN 1 ELSE 2,
       0 >>

\* key=lambda x: (0 if 已过期 else (1 if 即将过期 else 2), days_left if int else 999)
report_sort_key(row) ==
    << IF row.status = EXPIRED THEN 0 ELSE IF row.status = EXPIRING_SOON THEN 1 ELSE 2,
       IF row.days_left # None THEN Val(row.days_left) ELSE 999 >>

\* tuple comparison of two sort keys
key_less(a, b) == a[1] < b[1] \/ (a[1] = b[1] /\ a[2] < b[2])

\* report_data.sort(key=...): stable, ascending
RECURSIVE report_insert(_, _)
report_insert(row, rows) ==
    IF rows = <<>> THEN <<row>>
    ELSE IF key_less(report_sort_key(row), report_sort_key(Head(rows))) THEN <<row>> \o rows
    ELSE <<Head(rows)>> \o report_insert(row, Tail(rows))

RECURSIVE report_sort(_)
report_sort(rows) ==
    IF rows = <<>> THEN <<>>
    ELSE report_insert(rows[Len(rows)], report_sort(SubSeq(rows, 1, Len(rows) - 1)))

\* generate_status_report_data
generate_status_report_data(docs) ==
    report_sort([k \in 1..Len(docs) |-> report_row(docs[k])])

\* a row of write_csv_file with the calculated fields; an empty cell ('') is None
csv_row(doc) ==
    [person_name |-> doc.person_name, document_type |-> doc.document_type,
     expiry_date |-> doc.expiry_date, remarks |-> doc.remarks,
     days_left |-> doc.days_left,
     status |-> IF doc.status # None THEN Val(doc.status) ELSE "",
     needs_reminder |-> IF doc.needs_reminder = None THEN ""
                        ELSE IF Val(doc.needs_reminder) THEN "yes" ELSE "no"]

\* write_csv_file: `if not documents: raise ValueError`, nothing is written;
\* otherwise one row per document, in the order of the list
write_csv_file(docs) ==
    IF docs = <<>> THEN "ValueError" ELSE [k \in 1..Len(docs) |-> csv_row(docs[k])]

\* ReminderLogic.generate_status_report_data(documents) on the computed batch
GenerateStatusReportData ==
    /\ ppc = "filter"
    /\ report_data = None
    /\ report_data' = Some(generate_status_report_data(documents))
    /\ UNCHANGED <<documents, days_until_expiring_threshold, reminder_days, today,
                   rollovers, ppc, idx, reminder_documents, summary, csv_rows, first_pass>>
    /\ UNCHANGED <<dispatchVars, schedVars, appVars>>

\* run_report after the status engine: nothing is written for an empty batch,
\* otherwise write_csv_file(documents, ...) writes the report
RunReportWrite ==
    /\ ppc = "filter"
    /\ csv_rows' = IF documents = <<>> THEN None ELSE Some(write_csv_file(documents))
    /\ ppc' = "reported"
    /\ UNCHANGED <<documents, days_until_expiring_threshold, reminder_days, today,
                   rollovers, idx, reminder_documents, summary, report_data, first_pass>>
    /\ UNCHANGED <<dispatchVars, schedVars, appVars>>

\* a report run does not use the reminder thresholds
ReportInit ==
    /\ DispatchIdle
    /\ SchedIdle
    /\ AppIdle
    /\ documents \in Batches
    /\ days_until_expiring_threshold \in ThresholdValues
    /\ reminder_days = <<>>
    /\ today = 0
    /\ rollovers = 0
    /\ ppc = "status"
    /\ idx = 0
    /\ reminder_documents = None
    /\ summary = None
    /\ report_data = None
    /\ csv_rows = None
    /\ first_pass = None

(***************************************************************************)
(* Scheduler wrapper: scripts/scheduled_runner.py                          *)
(***************************************************************************)
\* the wall clock at a schedule slot: 10:30 (catchup task) and 21:00 (run task)
\* of every day, starting with 10:30 of day 0
datetime_now(slot) == [date |-> slot \div 2, time |-> IF slot % 2 = 0 THEN 1030 ELSE 2100]

\* the task the scheduler starts at a slot
ScheduledMode(slot) == IF slot % 2 = 0 THEN "catchup" ELSE "run"

\* ts.isoformat(): the date part, then the time part
isoformat(ts) == <<ts.date, ts.time>>

\* datetime.fromisoformat(text): a date and a time, or a date alone (midnight);
\* anything else raises ValueError, given here as None
fromisoformat(text) ==
    IF Len(text) = 2 THEN Some([date |-> text[1], time |-> text[2]])
    ELSE IF Len(text) = 1 THEN Some([date |-> text[1], time |-> 0])
    ELSE None

\* read_last_success_time: None for a missing, empty or unparsable file (the
\* contents considered hold no surrounding whitespace for strip() to remove)
read_last_success_time(file) ==
    IF file = None THEN None
    ELSE IF Val(file) = <<>> THEN None
    ELSE fromisoformat(Val(file))

\* the state file before the first task: absent, a success of the evening
\* before day 0, or text that is no timestamp
InitialStateFiles ==
    { None,
      Some(isoformat([date |-> 0 - 1, time |-> 2100])),
      Some(<<0 - 1, 2100, 0>>) }

SchedInit ==
    /\ DispatchIdle
    /\ PipelineIdle
    /\ AppIdle
    /\ clock = 0
    /\ spc = "idle"
    /\ mode = "none"
    /\ now = None
    /\ state_file \in InitialStateFiles
    /\ exit_code = None
    /\ file_before = None
    /\ crashed_in_write = FALSE
    /\ sched_log = <<>>

\* main(): mode = sys.argv[1], now = datetime.now(); an unknown mode prints the
\* usage and exits with 2
SchedStart ==
    /\ spc = "idle"
    /\ \E m \in {ScheduledMode(clock), "help"} :
          /\ mode' = m
          /\ IF m = "run" THEN spc' = "check" /\ exit_code' = None
             ELSE IF m = "catchup" THEN spc' = "read" /\ exit_code' = None
             ELSE spc' = "exited" /\ exit_code' = Some(2)
    /\ now' = Some(datetime_now(clock))
    /\ file_before' = None
    /\ crashed_in_write' = FALSE
    /\ UNCHANGED <<clock, state_file, sched_log>>
    /\ UNCHANGED <<dispatchVars, pipelineVars, appVars>>

\* catchup: last_ok = read_last_success_time(); need_catchup decides
CatchupRead ==
    /\ spc = "read"
    /\ LET last_ok == read_last_success_time(state_file)
           yesterday == Val(now).date - 1
           need_catchup == last_ok = None \/ Val(last_ok).date < yesterday
       IN /\ IF need_catchup
             THEN spc' = "check" /\ UNCHANGED exit_code
             ELSE spc' = "exited" /\ exit_code' = Some(0)
          /\ sched_log' = Append(sched_log,
                 [slot |-> clock, mode |-> mode, event |-> "need_catchup", value |-> need_catchup])
    /\ UNCHANGED <<clock, mode, now, state_file, file_before, crashed_in_write>>
    /\ UNCHANGED <<dispatchVars, pipelineVars, appVars>>

\* variant: the timestamp is written whatever the check returned
RunLicenceCheck_AlwaysWrites ==
    /\ spc = "check"
    /\ \E ok \in BOOLEAN :
          /\ spc' = "write" /\ UNCHANGED exit_code
          /\ sched_log' = Append(sched_log,
                 [slot |-> clock, mode |-> mode, event |-> "ok", value |-> ok])
    /\ UNCHANGED <<clock, mode, now, state_file, file_before, crashed_in_write>>
    /\ UNCHANGED <<dispatchVars, pipelineVars, appVars>>

\* ok = run_licence_check(): the child process returns 0 or not;
\* `if ok: write_last_success_time(now)`, a failure exits with 1
RunLicenceCheck ==
    /\ spc = "check"
    /\ \E ok \in BOOLEAN :
          /\ IF ok THEN spc' = "write" /\ UNCHANGED exit_code
             ELSE spc' = "exited" /\ exit_code' = Some(1)
          /\ sched_log' = Append(sched_log,
                 [slot |-> clock, mode |-> mode, event |-> "ok", value |-> ok])
    /\ UNCHANGED <<clock, mode, now, state_file, file_before, crashed_in_write>>
    /\ UNCHANGED <<dispatchVars, pipelineVars, appVars>>

\* write_last_success_time, STATE_FILE.write_text: open(mode 'w') creates or
\* truncates the file; the text is still in the writer's buffer
WriteOpen ==
    /\ spc = "write"
    /\ file_before' = Some(state_file)
    /\ state_file' = Some(<<>>)
    /\ spc' = "flush"
    /\ UNCHANGED <<clock, mode, now, exit_code, crashed_in_write, sched_log>>
    /\ UNCHANGED <<dispatchVars, pipelineVars, appVars>>

\* variant: the text reaches the file in two writes, the date part first
WriteFlush_Chunked ==
    /\ spc = "flush"
    /\ IF Val(state_file) = <<>>
       THEN state_file' = Some(<<Val(now).date>>) /\ spc' = "flush"
       ELSE state_file' = Some(isoformat(Val(now))) /\ spc' = "written"
    /\ UNCHANGED <<clock, mode, now, exit_code, file_before, crashed_in_write, sched_log>>
    /\ UNCHANGED <<dispatchVars, pipelineVars, appVars>>

\* closing the file flushes the buffer: the whole text (some twenty bytes)
\* reaches the file in one write
WriteFlush ==
    /\ spc = "flush"
    /\ state_file' = Some(isoformat(Val(now)))
    /\ spc' = "written"
    /\ UNCHANGED <<clock, mode, now, exit_code, file_before, crashed_in_write, sched_log>>
    /\ UNCHANGED <<dispatchVars, pipelineVars, appVars>>

\* sys.exit(0) after the write
SchedExit ==
    /\ spc = "written"
    /\ exit_code' = Some(0)
    /\ spc' = "exited"
    /\ UNCHANGED <<clock, mode, now, state_file, file_before, crashed_in_write, sched_log>>
    /\ UNCHANGED <<dispatchVars, pipelineVars, appVars>>

\* the process (or the machine) dies at any point of main()
Crash ==
    /\ spc \in {"read", "check", "write", "flush", "written"}
    /\ crashed_in_write' = (spc \in {"write", "flush", "written"})
    /\ file_before' = IF spc = "write" THEN Some(state_file) ELSE file_before
    /\ spc' = "crashed"
    /\ UNCHANGED <<clock, mode, now, state_file, exit_code, sched_log>>
    /\ UNCHANGED <<dispatchVars, pipelineVars, appVars>>

\* time passes to the next schedule slot; a slot in which no task was started
\* is a task the scheduler did not execute
TimePasses ==
    /\ spc \in {"idle", "exited", "crashed"}
    /\ clock < MaxSlots
    /\ clock' = clock + 1
    /\ spc' = "idle"
    /\ UNCHANGED <<mode, now, state_file, exit_code, file_before, crashed_in_write, sched_log>>
    /\ UNCHANGED <<dispatchVars, pipelineVars, appVars>>

SchedNext ==
    \/ SchedStart
    \/ CatchupRead
    \/ RunLicenceCheck
    \/ WriteOpen
    \/ WriteFlush
    \/ SchedExit
    \/ Crash
    \/ TimePasses

\* the scheduled tasks when no process is interrupted
ScheduleNext ==
    \/ SchedStart
    \/ CatchupRead
    \/ RunLicenceCheck
    \/ WriteOpen
    \/ WriteFlush
    \/ SchedExit
    \/ TimePasses

(***************************************************************************)
(* Application: configuration, initialize and run_reminder                 *)
(***************************************************************************)
\* AppConfig with the sections the run uses
AppConfig(primary, backups, receiver_email, days, threshold, mail_template) ==
    [email |-> [primary_server |-> primary, backup_servers |-> backups,
                receiver_email |-> receiver_email],
     reminder |-> [days_before_expiry |-> days],
     report |-> [days_until_expiring_threshold |-> threshold],
     mail_template |-> mail_template]

\* values of smtp_port around the two ends of the accepted range
PortValues == {0, 1, 65535, 65536}

\* primary relays: any of host, port, user and password may be unusable; a key
\* whose value is empty and a key with an empty string are the same value here
PrimaryServers ==
    {[SmtpServerConfig(1, FALSE, TRUE) EXCEPT
         !.smtp_server = h, !.smtp_port = p, !.smtp_user = u, !.smtp_password = w] :
       h \in {SmtpHosts[1], <<>>}, p \in PortValues,
       u \in {<<"user", 1>>, <<>>}, w \in {<<"secret", 1>>, <<>>}}

\* backup_servers: none, or one backup whose host or port may be unusable
BackupServerLists ==
    {<<>>} \cup
    {<<[SmtpServerConfig(2, TRUE, FALSE) EXCEPT !.smtp_server = h, !.smtp_port = p]>> :
       h \in {SmtpHosts[2], <<>>}, p \in {465, 0}}

\* receiver_email as a string of characters: empty, one address, a string
\* without @, and two entries of which the second is no address
ReceiverStrings ==
    { <<>>,
      <<"a", "@", "b", ".", "c">>,
      <<"a", "b">>,
      <<"a", "@", "b", ".", "c", ",", " ", "d">> }

DaysBeforeExpiryLists == {<<>>, <<0>>, <<1, 0 - 1>>, <<7, 1>>}
ReportThresholds == {0 - 1, 0}

\* mail_template: the default one, one with each template empty, one with each
\* template null, and a body without {table_rows}
AppTemplates ==
    { DefaultTemplate,
      [DefaultTemplate EXCEPT !.subject = <<>>],
      [DefaultTemplate EXCEPT !.body_html = <<>>],
      [DefaultTemplate EXCEPT !.table_row_html = <<>>],
      [DefaultTemplate EXCEPT !.subject = NoneTemplate],
      [DefaultTemplate EXCEPT !.body_html = NoneTemplate],
      [DefaultTemplate EXCEPT !.table_row_html = NoneTemplate],
      [DefaultTemplate EXCEPT !.body_html = <<Lit("table")>>] }

AppConfigs ==
    {AppConfig(p, b, r, d, t, m) :
       p \in PrimaryServers, b \in BackupServerLists, r \in ReceiverStrings,
       d \in DaysBeforeExpiryLists, t \in ReportThresholds, m \in AppTemplates}

\* a row of the CSV data file: the required columns and remarks
CsvRow(expiry_date, remarks) ==
    [person_name |-> "person", document_type |-> "licence",
     expiry_date |-> expiry_date, remarks |-> remarks]

\* the CSV data: no row, a document that is not due, an expired document next
\* to a row whose expiry_date cell is empty, an expired document marked
\* handled with blanks around the mark, and an expired document next to one
\* that is not due
DataFiles ==
    { <<>>,
      <<CsvRow(Some(1), <<>>)>>,
      <<CsvRow(Some(0 - 1), <<>>), CsvRow(None, <<>>)>>,
      <<CsvRow(Some(0 - 1), <<" ">> \o Sentinel \o <<" ">>)>>,
      <<CsvRow(Some(0 - 1), <<>>), CsvRow(Some(1), <<>>)>> }

\* _validate_dataframe raises ValueError for a file without rows and for a row
\* whose required expiry_date cell is empty (person_name and document_type are
\* never empty here)
read_csv_file_raises(file) ==
    \/ file = <<>>
    \/ \E k \in 1..Len(file) : file[k].expiry_date = None

\* _dataframe_to_documents: one PersonDocument per row, remarks stripped
read_csv_file(file) ==
    [k \in 1..Len(file) |-> PersonDocument(file[k].expiry_date, strip(file[k].remarks))]

\* create_sample_csv: five rows dated from today (+365, +30, +7, -5, +60 days)
create_sample_csv(on_day) ==
    << CsvRow(Some(on_day + 365), <<"dept">>),
       CsvRow(Some(on_day + 30), <<"dept">>),
       CsvRow(Some(on_day + 7), <<"dept">>),
       CsvRow(Some(on_day - 5), <<"dept">>),
       CsvRow(Some(on_day + 60), <<"dept">>) >>

\* the modes of main() modelled here: the default reminder run, --test-email
\* and --create-sample
RunModes == {"reminder", "test_email", "create_sample"}

\* errors.append(text) under a condition
Err(cond, text) == IF cond THEN <<text>> ELSE <<>>

\* the four checks both validators make on one relay
server_errors(server_config, who) ==
    Err(server_config.smtp_server = <<>>, <<who, "smtp_server">>)
    \o Err(~(1 <= server_config.smtp_port /\ server_config.smtp_port <= 65535),
           <<who, "smtp_port">>)
    \o Err(server_config.smtp_user = <<>>, <<who, "smtp_user">>)
    \o Err(server_config.smtp_password = <<>>, <<who, "smtp_password">>)

\* for i, backup_server in enumerate(backup_servers)
RECURSIVE backup_errors(_, _)
backup_errors(backup_servers, n) ==
    IF n = 0 THEN <<>>
    ELSE backup_errors(backup_servers, n - 1) \o server_errors(backup_servers[n], <<"backup", n>>)

\* variant: the backup relays are not validated
validate_config_PrimaryOnly(cfg) ==
    server_errors(cfg.email.primary_server, <<"primary", 0>>)
    \o Err(cfg.email.receiver_email = <<>>, <<"email", "receiver_email">>)
    \o Err(cfg.reminder.days_before_expiry = <<>>, <<"reminder", "empty">>)
    \o Err(\E k \in 1..Len(cfg.reminder.days_before_expiry) :
               cfg.reminder.days_before_expiry[k] < 0, <<"reminder", "negative">>)
    \o Err(cfg.report.days_until_expiring_threshold < 0, <<"report", "negative">>)

\* ConfigManager.validate_config
validate_config(cfg) ==
    server_errors(cfg.email.primary_server, <<"primary", 0>>)
    \o backup_errors(cfg.email.backup_servers, Len(cfg.email.backup_servers))
    \o Err(cfg.email.receiver_email = <<>>, <<"email", "receiver_email">>)
    \o Err(cfg.reminder.days_before_expiry = <<>>, <<"reminder", "empty">>)
    \o Err(\E k \in 1..Len(cfg.reminder.days_before_expiry) :
               cfg.reminder.days_before_expiry[k] < 0, <<"reminder", "negative">>)
    \o Err(cfg.report.days_until_expiring_threshold < 0, <<"report", "negative">>)

\* str.split(sep)
RECURSIVE split(_, _)
split(s, sep) ==
    IF \A k \in 1..Len(s) : s[k] # sep THEN <<s>>
    ELSE LET k == CHOOSE j \in 1..Len(s) : s[j] = sep /\ \A h \in 1..(j - 1) : s[h] # sep
         IN <<SubSeq(s, 1, k - 1)>> \o split(SubSeq(s, k + 1, Len(s)), sep)

\* [email.strip() for email in receiver_email.split(',')]
receivers_of(receiver_email) ==
    [k \in 1..Len(split(receiver_email, ",")) |-> strip(split(receiver_email, ",")[k])]

\* for email in receivers: if '@' not in email or '.' not in email
RECURSIVE format_errors(_, _)
format_errors(receivers, n) ==
    IF n = 0 THEN <<>>
    ELSE format_errors(receivers, n - 1)
         \o Err(\/ \A k \in 1..Len(receivers[n]) : receivers[n][k] # "@"
                \/ \A k \in 1..Len(receivers[n]) : receivers[n][k] # ".",
                <<"format", n>>)

\* EmailSender.validate_email_config
validate_email_config(cfg) ==
    server_errors(cfg.email.primary_server, <<"primary", 0>>)
    \o backup_errors(cfg.email.backup_servers, Len(cfg.email.backup_servers))
    \o (IF cfg.email.receiver_email = <<>>
        THEN <<<<"email", "receiver_email">>>>
        ELSE format_errors(receivers_of(cfg.email.receiver_email),
                           Len(receivers_of(cfg.email.receiver_email))))
    \o Err(cfg.mail_template.subject \in {<<>>, NoneTemplate}, <<"template", "subject">>)
    \o (IF cfg.mail_template.body_html \in {<<>>, NoneTemplate}
        THEN <<<<"template", "body_html">>>>
        ELSE Err(\A k \in 1..Len(cfg.mail_template.body_html) :
                     cfg.mail_template.body_html[k] # Field("table_rows"),
                 <<"template", "table_rows">>))
    \o Err(cfg.mail_template.table_row_html \in {<<>>, NoneTemplate},
           <<"template", "table_row_html">>)

\* main() has parsed the arguments of a reminder run; nothing is initialized yet
RunInit ==
    /\ DispatchIdle
    /\ PipelineIdle
    /\ SchedIdle
    /\ args \in RunModes
    /\ app_config \in AppConfigs
    /\ data_file \in DataFiles
    /\ apc = "start"
    /\ config_errors = None
    /\ email_errors = None
    /\ exit_status = None

\* LicenceManagementApp.initialize, and `if not app.initialize(): return 1`:
\* errors of validate_config end the run; errors of validate_email_config are
\* logged as warnings and initialize returns True
Initialize ==
    /\ apc = "start"
    /\ config_errors' = Some(validate_config(app_config))
    /\ IF validate_config(app_config) # <<>>
       THEN /\ apc' = "exited"
            /\ exit_status' = Some(1)
            /\ UNCHANGED <<email_errors, servers, template_config>>
       ELSE /\ servers' = <<app_config.email.primary_server>> \o app_config.email.backup_servers
            /\ template_config' = app_config.mail_template
            /\ email_errors' = Some(validate_email_config(app_config))
            /\ apc' = "initialized"
            /\ UNCHANGED exit_status
    /\ UNCHANGED <<args, app_config, data_file>>
    /\ UNCHANGED <<max_retry_attempts, message, dpc, i, server, transports, exc, success,
                   attempted, outcomes, transmitted, suggestions, result, attempt_steps,
                   email_documents>>
    /\ UNCHANGED <<pipelineVars, schedVars>>

\* run_reminder in the default mode: read_csv_file raises for a file without
\* rows or with an empty required cell, the exception is caught and the run
\* returns False; `if not documents: return True`; otherwise the status
\* engine is called with the configured threshold
RunReminderRead ==
    /\ apc = "initialized"
    /\ args = "reminder"
    /\ IF read_csv_file_raises(data_file)
       THEN /\ apc' = "exited"
            /\ exit_status' = Some(1)
            /\ UNCHANGED <<documents, ppc, days_until_expiring_threshold, reminder_days>>
       ELSE /\ documents' = read_csv_file(data_file)
            /\ IF documents' = <<>>
               THEN /\ apc' = "exited"
                    /\ exit_status' = Some(0)
                    /\ UNCHANGED <<ppc, days_until_expiring_threshold, reminder_days>>
               ELSE /\ apc' = "running"
                    /\ ppc' = "status"
                    /\ days_until_expiring_threshold' =
                           app_config.report.days_until_expiring_threshold
                    /\ reminder_days' = app_config.reminder.days_before_expiry
                    /\ UNCHANGED exit_status
    /\ UNCHANGED <<args, app_config, data_file, config_errors, email_errors>>
    /\ UNCHANGED <<today, rollovers, idx, reminder_documents, derivedVars>>
    /\ UNCHANGED <<dispatchVars, schedVars>>

\* run_test_email calls send_test_email
RunTestEmail ==
    /\ apc = "initialized"
    /\ args = "test_email"
    /\ dpc' = "test_email"
    /\ apc' = "sending"
    /\ UNCHANGED <<args, app_config, data_file, config_errors, email_errors, exit_status>>
    /\ UNCHANGED <<servers, max_retry_attempts, message, i, server, transports, exc,
                   success, attempted, outcomes, transmitted, suggestions, result,
                   attempt_steps, template_config, email_documents>>
    /\ UNCHANGED <<pipelineVars, schedVars>>

\* create_sample_data: create_sample_csv overwrites the data file, main returns 0
CreateSampleData ==
    /\ apc = "initialized"
    /\ args = "create_sample"
    /\ data_file' = create_sample_csv(today)
    /\ apc' = "exited"
    /\ exit_status' = Some(0)
    /\ UNCHANGED <<args, app_config, config_errors, email_errors>>
    /\ UNCHANGED <<dispatchVars, pipelineVars, schedVars>>

\* run_reminder after filter_reminder_documents: `if not reminder_documents:
\* return True`; otherwise the summary is built and send_reminder_email is called
RunReminderFiltered ==
    /\ apc = "running"
    /\ ppc = "done"
    /\ IF Val(reminder_documents) = <<>>
       THEN /\ apc' = "exited"
            /\ exit_status' = Some(0)
            /\ UNCHANGED <<summary, ppc, email_documents, dpc>>
       ELSE /\ summary' = Some(generate_reminder_summary(ReminderList))
            /\ ppc' = "summarized"
            /\ email_documents' = ReminderList
            /\ dpc' = "idle"
            /\ apc' = "sending"
            /\ UNCHANGED exit_status
    /\ UNCHANGED <<args, app_config, data_file, config_errors, email_errors>>
    /\ UNCHANGED <<documents, days_until_expiring_threshold, reminder_days, today,
                   rollovers, idx, reminder_documents, report_data, csv_rows, first_pass>>
    /\ UNCHANGED <<servers, max_retry_attempts, message, i, server, transports, exc,
                   success, attempted, outcomes, transmitted, suggestions, result,
                   attempt_steps, template_config>>
    /\ UNCHANGED schedVars

\* run_reminder / run_test_email return what the sender returned; main()
\* returns 0 if success else 1
RunReminderReturn ==
    /\ apc = "sending"
    /\ dpc = "done"
    /\ exit_status' = Some(IF Val(result) THEN 0 ELSE 1)
    /\ apc' = "exited"
    /\ UNCHANGED <<args, app_config, data_file, config_errors, email_errors>>
    /\ UNCHANGED <<dispatchVars, pipelineVars, schedVars>>

RunNext ==
    \/ Initialize
    \/ RunReminderRead
    \/ RunTestEmail
    \/ CreateSampleData
    \/ SendTestEmail
    \/ CalculateDocumentStatus
    \/ CalculateDocumentStatusReturn
    \/ DateRollover
    \/ FilterReminderDocuments
    \/ RunReminderFiltered
    \/ SendReminderEmail
    \/ ForNext
    \/ Connect
    \/ StartTls
    \/ Login
    \/ RewriteFrom
    \/ Sendmail
    \/ Quit
    \/ Except
    \/ Finally
    \/ AttemptReturned
    \/ RunReminderReturn

RunSpec == RunInit /\ [][RunNext]_vars

PipelineNext ==
    \/ CalculateDocumentStatus
    \/ CalculateDocumentStatusReturn
    \/ DateRollover
    \/ FilterReminderDocuments
    \/ GenerateReminderSummary

RerunNext ==
    \/ CalculateDocumentStatus
    \/ CalculateDocumentStatusReturn
    \/ FilterReminderDocuments
    \/ Rerun

ReportNext ==
    \/ CalculateDocumentStatus
    \/ CalculateDocumentStatusReturn
    \/ DateRollover
    \/ GenerateStatusReportData
    \/ RunReportWrite

DispatchNext ==
    \/ SendReminderEmail
    \/ ForNext
    \/ Connect
    \/ StartTls
    \/ Login
    \/ RewriteFrom
    \/ Sendmail
    \/ Quit
    \/ Except
    \/ Finally
    \/ AttemptReturned

DispatchSpec == DispatchInit /\ [][DispatchNext]_vars

ComposeNext ==
    \/ SendReminderEmail
    \/ ForNext
    \/ Connect
    \/ StartTls
    \/ Login
    \/ RewriteFrom
    \/ Sendmail
    \/ Quit
    \/ Except
    \/ Finally
    \/ AttemptReturned

ComposeSpec == ComposeInit /\ [][ComposeNext]_vars

(***************************************************************************)
(* Dispatcher properties                                                   *)
(***************************************************************************)
\* index of the first successful attempt, 0 if none
FirstSuccess ==
    IF \E k \in 1..Len(outcomes) : outcomes[k].ok
    THEN CHOOSE k \in 1..Len(outcomes) :
             outcomes[k].ok /\ \A j \in 1..(k - 1) : ~outcomes[j].ok
    ELSE 0

\* C1: the relays attempted are, in order, the prefix of [primary] + backups
\* that ends with the first relay whose attempt succeeds (the whole list when
\* none succeeds): configured order, nothing after a success, nothing twice.
C1_AttemptsArePrefixUpToFirstSuccess ==
    /\ Len(attempted) <= Len(servers)
    /\ \A k \in 1..Len(attempted) : servers[attempted[k]] = servers[k] /\ attempted[k] = k
    /\ \A k \in 1..Len(outcomes) : outcomes[k].ok => Len(attempted) = k
    /\ dpc = "done" =>
          /\ Len(outcomes) = Len(attempted)
          /\ Len(attempted) = (IF FirstSuccess = 0 THEN Len(servers) ELSE FirstSuccess)

\* C1 witness: three relays, the first fails, the second succeeds, the third
\* is never tried, with 3 retry attempts configured
C1_Witness ==
    /\ dpc = "done"
    /\ Len(servers) = 3
    /\ max_retry_attempts = 3
    /\ attempted = <<1, 2>>
    /\ ~outcomes[1].ok
    /\ outcomes[2].ok

\* C2: the overall result is true iff some attempted relay succeeded; it is
\* false only after all N configured relays were attempted, in order, and
\* all N failed.
C2_ResultTrueIffSomeRelaySucceeded ==
    /\ result # None => dpc = "done"
    /\ dpc = "done" =>
          /\ result # None
          /\ Val(result) = (\E k \in 1..Len(outcomes) : outcomes[k].ok)
          /\ Val(result) = FALSE =>
                /\ Len(outcomes) = Len(servers)
                /\ \A k \in 1..Len(outcomes) : outcomes[k].relay = k /\ ~outcomes[k].ok

\* C2 witness: three relays, all three fail, overall result false
C2_Witness ==
    /\ dpc = "done"
    /\ result = Some(FALSE)
    /\ Len(servers) = 3
    /\ Len(outcomes) = 3
    /\ outcomes[1].class = "AuthFailure"

\* C3: every transmission through relay R carries R's own smtp_user as its
\* From header, never the header built from the primary relay nor the address
\* of a relay tried before.
C3_FromIsOwnAddress ==
    \A t \in 1..Len(transmitted) :
        /\ transmitted[t].From = <<servers[transmitted[t].relay].smtp_user>>
        /\ transmitted[t].From # FormattedFrom(servers[1])
        /\ \A k \in 1..(transmitted[t].relay - 1) :
               transmitted[t].From # <<servers[k].smtp_user>>

\* C3 witness: the first relay rewrote the header and then failed in sendmail,
\* the second relay transmitted
C3_Witness ==
    /\ Len(outcomes) >= 2
    /\ outcomes[1].class = "RecipientRejected"
    /\ \E t \in 1..Len(transmitted) : transmitted[t].relay = 2

\* C4: at most one transport is open at any time, it belongs to the relay
\* being attempted, and none is open before an attempt starts, after an
\* attempt has returned, or when the dispatcher has returned.
C4_TransportClosedOnEveryExit ==
    /\ Cardinality(transports) <= 1
    /\ transports \subseteq {i}
    /\ dpc \in {"idle", "loop", "connect", "returned", "done"} => transports = {}

\* C4 witness: an attempt that had opened its transport failed, and a later
\* attempt opened another one
C4_Witness ==
    /\ dpc = "done"
    /\ Len(outcomes) >= 2
    /\ outcomes[1].opened /\ ~outcomes[1].ok
    /\ outcomes[2].opened

(***************************************************************************)
(* Status engine and reminder filter properties                            *)
(***************************************************************************)
\* s is the sentinel remark with whitespace around it
TrimmedIsSentinel(s) ==
    \E a \in 0..Len(s) : \E b \in 0..Len(s) :
        /\ Len(s) = a + Len(Sentinel) + b
        /\ \A k \in 1..a : s[k] \in Whitespace
        /\ \A k \in (Len(s) - b + 1)..Len(s) : s[k] \in Whitespace
        /\ SubSeq(s, a + 1, a + Len(Sentinel)) = Sentinel

\* the sentinel occurs somewhere inside s
ContainsSentinel(s) ==
    \E a \in 1..Len(s) : a + Len(Sentinel) - 1 <= Len(s)
                         /\ SubSeq(s, a, a + Len(Sentinel) - 1) = Sentinel

\* largest element of a non-empty list
MaxOf(s) == CHOOSE m \in {s[k] : k \in 1..Len(s)} : \A k \in 1..Len(s) : s[k] <= m

\* every reordering of a list
Reorderings(s) ==
    {[k \in 1..Len(s) |-> s[f[k]]] :
        f \in {g \in [1..Len(s) -> 1..Len(s)] : \A a, b \in 1..Len(s) : g[a] = g[b] => a = b}}

\* the reminder output as a set of document indices
ReminderOutput == {Val(reminder_documents)[k] : k \in 1..Len(Val(reminder_documents))}

\* C5: a document with an expiry date gets days_left = expiry_date - today
\* (today as read when the document is processed) and exactly one status:
\* Expired iff days_left < 0, ExpiringSoon iff 0 <= days_left <= threshold,
\* Valid iff days_left > threshold.
C5_StatusMatchesDaysLeft ==
    [][\A k \in 1..Len(documents') :
          LET d == documents'[k]
              t == days_until_expiring_threshold
          IN (d.expiry_date # None /\ k <= idx') =>
                /\ d.days_left # None
                /\ d.status \in {Some(EXPIRED), Some(EXPIRING_SOON), Some(VALID)}
                /\ d.status = Some(EXPIRED) <=> Val(d.days_left) < 0
                /\ d.status = Some(EXPIRING_SOON) <=>
                       (0 <= Val(d.days_left) /\ Val(d.days_left) <= t)
                /\ d.status = Some(VALID) <=> Val(d.days_left) > t
                /\ documents[k].status = None =>
                       Val(d.days_left) = Val(d.expiry_date) - today]_vars

\* C5 witness: the batch has been classified and holds a document that expires
\* exactly on the threshold day and one that is expired
C5_Witness ==
    /\ ppc = "filter"
    /\ \E k \in 1..Len(documents) :
          /\ documents[k].status = Some(EXPIRING_SOON)
          /\ documents[k].days_left = Some(days_until_expiring_threshold)
    /\ \E k \in 1..Len(documents) : documents[k].status = Some(EXPIRED)

\* C6: after the status engine and the filter, a document has status Unknown
\* iff it has no expiry date, and then days_left is null, needs_reminder is
\* false and the document is not in the reminder output.
C6_UnknownIffNoExpiry ==
    ppc = "done" =>
        /\ \A k \in 1..Len(documents) :
              /\ documents[k].status = Some(UNKNOWN) <=> documents[k].expiry_date = None
              /\ documents[k].expiry_date = None =>
                    /\ documents[k].days_left = None
                    /\ documents[k].needs_reminder = Some(FALSE)
        /\ \A k \in ReminderOutput : documents[k].status # Some(UNKNOWN)

\* C6 witness: a processed batch that holds a document without expiry date
\* and whose reminder output is not empty
C6_Witness ==
    /\ ppc = "done"
    /\ \E k \in 1..Len(documents) : documents[k].expiry_date = None
    /\ ReminderOutput # {}

\* C7: a document whose trimmed remarks are the sentinel gets needs_reminder
\* false and is left out, whatever its status, days_left and the thresholds;
\* a remark that only contains the sentinel changes nothing.
C7_SentinelSuppressesReminder ==
    ppc = "done" =>
        \A k \in 1..Len(documents) :
            LET d == documents[k] IN
            /\ TrimmedIsSentinel(d.remarks) =>
                  d.needs_reminder = Some(FALSE) /\ k \notin ReminderOutput
            /\ (ContainsSentinel(d.remarks) /\ ~TrimmedIsSentinel(d.remarks)
                  /\ d.days_left # None) =>
                  d.needs_reminder =
                     Some(\/ Val(d.days_left) < 0
                          \/ reminder_days # <<>> /\ Val(d.days_left) <= MaxOf(reminder_days))

\* C7 witness: an expired document whose remark is the sentinel surrounded by
\* whitespace, and an expired one whose remark only contains the sentinel
C7_Witness ==
    /\ ppc = "done"
    /\ \E k \in 1..Len(documents) :
          /\ documents[k].status = Some(EXPIRED)
          /\ documents[k].remarks # Sentinel
          /\ TrimmedIsSentinel(documents[k].remarks)
    /\ \E k \in 1..Len(documents) :
          /\ documents[k].status = Some(EXPIRED)
          /\ ContainsSentinel(documents[k].remarks)
          /\ ~TrimmedIsSentinel(documents[k].remarks)

\* C8: every Expired document whose trimmed remarks are not the sentinel has
\* needs_reminder true and is in the reminder output, for every threshold
\* set, the empty one included.
C8_ExpiredAlwaysReminded ==
    ppc = "done" =>
        \A k \in 1..Len(documents) :
            (documents[k].status = Some(EXPIRED) /\ ~TrimmedIsSentinel(documents[k].remarks)) =>
                documents[k].needs_reminder = Some(TRUE) /\ k \in ReminderOutput

\* C8 witness: an expired document without sentinel, filtered with the empty
\* threshold set
C8_Witness ==
    /\ ppc = "done"
    /\ reminder_days = <<>>
    /\ \E k \in 1..Len(documents) :
          documents[k].status = Some(EXPIRED) /\ ~TrimmedIsSentinel(documents[k].remarks)

\* C9: for a non-expired document without sentinel, needs_reminder is false
\* when the threshold set is empty and (days_left <= max of the set)
\* otherwise; reordering the list, or replacing it by <<max>>, changes nothing.
C9_OnlyMaxThresholdMatters ==
    ppc = "done" =>
        \A k \in 1..Len(documents) :
            LET d == documents[k] IN
            (d.days_left # None /\ Val(d.days_left) >= 0 /\ ~TrimmedIsSentinel(d.remarks)) =>
                /\ reminder_days = <<>> => d.needs_reminder = Some(FALSE)
                /\ reminder_days # <<>> =>
                      /\ d.needs_reminder = Some(Val(d.days_left) <= MaxOf(reminder_days))
                      /\ \A r \in Reorderings(reminder_days) :
                            d.needs_reminder = Some(filter_one(d, r))
                      /\ d.needs_reminder = Some(filter_one(d, <<MaxOf(reminder_days)>>))

\* C9 witness: the largest threshold is not the first of the list and a
\* document lies between the first threshold and the largest
C9_Witness ==
    /\ ppc = "done"
    /\ Len(reminder_days) >= 2
    /\ \E k \in 1..Len(documents) :
          /\ documents[k].days_left # None
          /\ ~TrimmedIsSentinel(documents[k].remarks)
          /\ Val(documents[k].days_left) > reminder_days[1]
          /\ Val(documents[k].days_left) <= MaxOf(reminder_days)

\* C10: the returned list holds exactly the documents whose needs_reminder is
\* true, each once, in non-decreasing days_left order.
C10_OutputIsFlaggedSorted ==
    ppc = "done" =>
        LET out == Val(reminder_documents) IN
        /\ \A k \in 1..Len(documents) :
              documents[k].needs_reminder = Some(TRUE) <=> k \in ReminderOutput
        /\ ReminderOutput \subseteq 1..Len(documents)
        /\ \A a, b \in 1..Len(out) : out[a] = out[b] => a = b
        /\ \A a, b \in 1..Len(out) :
              a < b => /\ documents[out[a]].days_left # None
                       /\ documents[out[b]].days_left # None
                       /\ Val(documents[out[a]].days_left) <= Val(documents[out[b]].days_left)

\* C10 witness: two flagged documents that the sort had to swap
C10_Witness ==
    /\ ppc = "done"
    /\ Len(Val(reminder_documents)) >= 2
    /\ Val(reminder_documents)[1] > Val(reminder_documents)[2]

\* a template has a replacement field of the given name
HasField(template, name) ==
    \E k \in 1..Len(template) : template[k].kind = "field" /\ template[k].text = name

\* some placeholder the composer requires is absent from its template
LacksRequiredPlaceholder(t) ==
    \/ \E n \in {"count", "today_date"} : ~HasField(t.subject, n)
    \/ ~HasField(t.body_html, "table_rows")
    \/ \E n \in {"person_name", "document_type", "expiry_date",
                 "days_left", "remarks", "color"} : ~HasField(t.table_row_html, n)

\* C11: when a required placeholder is absent from the subject, body or row
\* template, composing a non-empty reminder list fails: no message is built, no
\* relay is attempted and the call reports failure.
C11_MissingPlaceholderAbortsComposition ==
    (email_documents # <<>> /\ LacksRequiredPlaceholder(template_config)) =>
        /\ message = None
        /\ attempted = <<>>
        /\ (dpc = "done" => result = Some(FALSE))

\* C12: within one pass of the status engine every days_left is taken against
\* the same today: for two documents of the batch, the difference of their
\* days_left equals the difference of their expiry dates.
C12_BatchUsesOneToday ==
    ppc \in {"filter", "done"} =>
        \A a, b \in 1..Len(documents) :
            (documents[a].expiry_date # None /\ documents[b].expiry_date # None) =>
                Val(documents[a].days_left) - Val(documents[b].days_left)
                    = Val(documents[a].expiry_date) - Val(documents[b].expiry_date)

\* C13: when the status engine and the filter are run a second time on the
\* same batch with the same today and thresholds, every document has the same
\* days_left, status and needs_reminder as after the first pass and the
\* reminder list is the same list in the same order.
C13_SecondPassChangesNothing ==
    (first_pass # None /\ ppc = "done") =>
        /\ documents = Val(first_pass).documents
        /\ reminder_documents = Val(first_pass).reminder_documents

\* a second pass over a batch with two reminders
C13_Witness ==
    /\ first_pass # None
    /\ ppc = "done"
    /\ Len(Val(reminder_documents)) = 2
    /\ documents[Val(reminder_documents)[1]].days_left
           # documents[Val(reminder_documents)[2]].days_left

\* C14: in the summary of a reminder list, expired_count + expiring_count
\* equals total_count.
C14_CountsAddUp ==
    summary # None =>
        Val(summary).expired_count + Val(summary).expiring_count = Val(summary).total_count

\* a summary with an expired document and one that expires today
C14_Witness ==
    /\ summary # None
    /\ Val(summary).expired_count = 1
    /\ Val(summary).expiring_count = 1
    /\ \E k \in 1..Len(ReminderList) : ReminderList[k].days_left = Some(0)

\* the reminder candidates that carry the given status
WithStatus(label) == {k \in 1..Len(ReminderList) : ReminderList[k].status = Some(label)}

\* C15 as stated: expired_count is the number of candidates with status
\* Expired and expiring_count the number of candidates with status ExpiringSoon.
C15_CountsFollowStatus ==
    summary # None =>
        /\ Val(summary).expired_count = Cardinality(WithStatus(EXPIRED))
        /\ Val(summary).expiring_count = Cardinality(WithStatus(EXPIRING_SOON))

\* C15 as amended: expired_count is the number of candidates with status
\* Expired, expiring_count the number of all other candidates: those with
\* status ExpiringSoon and those with status Valid.
C15_CountsFollowDaysLeft ==
    summary # None =>
        /\ Val(summary).expired_count = Cardinality(WithStatus(EXPIRED))
        /\ Val(summary).expiring_count =
               Cardinality(WithStatus(EXPIRING_SOON)) + Cardinality(WithStatus(VALID))

\* a summary over an expired candidate and a candidate that is still Valid
C15_Witness ==
    /\ summary # None
    /\ Cardinality(WithStatus(EXPIRED)) = 1
    /\ Cardinality(WithStatus(VALID)) = 1

\* the classes a failed attempt can be given
FailureClasses ==
    {"AuthFailure", "RecipientRejected", "ConnectionDropped", "ConnectFailure",
     "ProtocolError", "NetworkError", "Unknown"}

\* C16: what the dispatcher returns carries, next to the boolean, the ordered
\* attempt log: one entry per relay tried, each with the relay and its outcome
\* and, for a failure, its classification and a remediation hint.
C16_ReturnsAttemptLog ==
    dpc = "done" =>
        /\ Val(result) \notin BOOLEAN
        /\ Len(outcomes) = Len(attempted)
        /\ \A k \in 1..Len(outcomes) :
               /\ outcomes[k].relay = attempted[k]
               /\ ~outcomes[k].ok =>
                      outcomes[k].class \in FailureClasses /\ outcomes[k].hint # None

\* the provider substrings the suggestion functions look for, and the advice
\* that is specific to a provider
RecognizedProviders == {<<"gmail", "com">>, <<"qq", "com">>, <<"163", "com">>}
ProviderSpecificHints ==
    {"gmail_app_password", "qq_auth_code", "163_auth_code", "gmail_use_proxy"}
HostRecognized(server_config) ==
    \E d \in RecognizedProviders : contains(lower(server_config.smtp_server), d)

\* C17: every failed attempt has one of the seven classes and carries a hint,
\* provider-specific when the relay host names a recognized provider and generic
\* otherwise.
C17_EveryFailureClassifiedWithHint ==
    \A k \in 1..Len(outcomes) :
        ~outcomes[k].ok =>
            /\ outcomes[k].class \in FailureClasses
            /\ outcomes[k].hint # None
            /\ (Val(outcomes[k].hint) \in ProviderSpecificHints
                    <=> HostRecognized(servers[outcomes[k].relay]))

\* position of a row in the status order: Expired, ExpiringSoon, anything else
StatusRank(row) ==
    IF row.status = EXPIRED THEN 0 ELSE IF row.status = EXPIRING_SOON THEN 1 ELSE 2

\* rows are in status order and, within one status, in ascending days_left
ReportOrdered(rows) ==
    \A a, b \in 1..Len(rows) :
        a < b =>
            /\ StatusRank(rows[a]) <= StatusRank(rows[b])
            /\ (rows[a].status = rows[b].status
                  /\ rows[a].days_left # None /\ rows[b].days_left # None)
                   => Val(rows[a].days_left) <= Val(rows[b].days_left)

\* C18: the rows the status report builder returns have every Expired row
\* before every ExpiringSoon row before every other row, and rows of equal
\* status in ascending days_left; there is one row per document.
C18_ReportRowsOrdered ==
    report_data # None =>
        /\ Len(Val(report_data)) = Len(documents)
        /\ ReportOrdered(Val(report_data))

\* a report whose input had a later-expiring document first and an Expired one last
C18_Witness ==
    /\ report_data # None
    /\ Len(documents) = 2
    /\ documents[2].status = Some(EXPIRED)
    /\ documents[1].status = Some(VALID)
    /\ Val(report_data)[1].status = EXPIRED

\* C19: the rows a report run writes are in status order and, within one
\* status, in ascending days_left, whatever the order of the input.
C19_WrittenReportOrdered ==
    csv_rows # None => ReportOrdered(Val(csv_rows))

\* C20: after a crash at any point of the timestamp write, the stored value
\* reads as the value stored before the write, as the value being written, or
\* as no value; never as another timestamp.
C20_CrashLeavesOldNewOrNothing ==
    crashed_in_write =>
        read_last_success_time(state_file)
            \in {read_last_success_time(Val(file_before)), now, None}

\* a crash between the truncation and the write, over an earlier timestamp
C20_Witness ==
    /\ crashed_in_write
    /\ file_before # None
    /\ read_last_success_time(Val(file_before)) # None
    /\ state_file = Some(<<>>)

\* the 21:00 run of the given slot executed and its check succeeded
RunSucceeded(slot) ==
    \E k \in 1..Len(sched_log) :
        /\ sched_log[k].slot = slot
        /\ sched_log[k].mode = "run"
        /\ sched_log[k].event = "ok"
        /\ sched_log[k].value

\* C21: a catchup task of day D (D >= 1) decides to re-run the check exactly
\* when the 21:00 run of day D-1 did not execute successfully.
C21_CatchupIffPreviousRunFailed ==
    \A k \in 1..Len(sched_log) :
        (sched_log[k].event = "need_catchup" /\ sched_log[k].slot >= 2) =>
            (sched_log[k].value <=> ~RunSucceeded(sched_log[k].slot - 1))

\* the current task's check result, if its check has run
CheckResults ==
    {sched_log[k].value : k \in {j \in 1..Len(sched_log) :
                                   sched_log[j].slot = clock /\ sched_log[j].event = "ok"}}

\* C22: the stored timestamp changes only inside a task whose check succeeded;
\* a task whose check failed, and a catchup that decided no catch-up is needed
\* (which runs no check), exit with the stored value they found.
C22_WrittenOnlyAfterSuccess ==
    [][ /\ state_file' # state_file => CheckResults = {TRUE}
        /\ (spc' = "exited" /\ mode' \in {"run", "catchup"} /\ CheckResults' # {TRUE})
              => (file_before' = None /\ state_file' = state_file)
        /\ (spc' = "exited" /\ exit_code' = Some(0) /\ CheckResults' = {})
              => mode' = "catchup" ]_vars

\* a run task that failed after an earlier success left its timestamp in place
C22_Witness ==
    /\ spc = "exited"
    /\ mode = "run"
    /\ exit_code = Some(1)
    /\ CheckResults = {FALSE}
    /\ read_last_success_time(state_file) = Some(datetime_now(0))

(***************************************************************************)
(* C24                                                                     *)
(***************************************************************************)
\* the steps one relay's attempt has executed so far
StepsOf(r) == SelectSeq(attempt_steps, LAMBDA e : e.relay = r)

IsPrefix(a, b) == Len(a) <= Len(b) /\ a = SubSeq(b, 1, Len(a))

\* C24: within one attempt the steps run in the order connect, optional STARTTLS,
\* login, rewrite of From, sendmail; a message is handed to sendmail only after
\* the login of the same attempt succeeded; a step that raises is the last step
\* of its attempt
C24_StepsInOrderAuthBeforeSend ==
    \A r \in 1..Len(servers) :
        LET st == StepsOf(r)
            core == SelectSeq(st, LAMBDA e : e.step # "starttls")
        IN  /\ IsPrefix([k \in 1..Len(core) |-> core[k].step],
                        <<"connect", "login", "rewrite", "sendmail", "quit">>)
            /\ \A k \in 1..Len(st) : st[k].step = "starttls" => k = 2
            /\ \A k \in 1..Len(st) :
                   st[k].step = "sendmail" =>
                       \E j \in 1..(k - 1) : st[j].step = "login" /\ st[j].raised = "none"
            /\ \A k \in 1..Len(st) : st[k].raised # "none" => k = Len(st)

\* the first relay refused the login and never reached sendmail; the second relay
\* upgraded with STARTTLS, logged in and sent
C24_Witness ==
    /\ dpc = "done"
    /\ Len(servers) >= 2
    /\ \E k \in 1..Len(StepsOf(1)) :
           StepsOf(1)[k].step = "login" /\ StepsOf(1)[k].raised # "none"
    /\ \E k \in 1..Len(StepsOf(2)) : StepsOf(2)[k].step = "starttls"
    /\ \E k \in 1..Len(StepsOf(2)) :
           StepsOf(2)[k].step = "sendmail" /\ StepsOf(2)[k].raised = "none"

(***************************************************************************)
(* C25                                                                     *)
(***************************************************************************)
\* the dispatches over a primary relay and at most MaxLiveBackups backups, in
\* every combination of transport modes
DispatchLiveInit ==
    /\ DispatchInit
    /\ Len(servers) <= MaxLiveBackups + 1

\* the hypothesis of C25, that each attempt ends: every call an attempt makes
\* returns or raises, and the interpreter keeps running the loop, so a step
\* that can be taken is eventually taken.  The code does not guarantee the
\* hypothesis: timeout=30 bounds each socket operation, not the call, and a
\* relay that keeps sending reply lines keeps a call from ending.
DispatchLiveSpec == DispatchLiveInit /\ [][DispatchNext]_vars /\ WF_vars(DispatchNext)

\* C25: given that each attempt ends, every dispatch eventually ends, returning
\* True (delivered) or False (all relays failed), whatever the relays raise
C25_DispatchTerminates ==
    <>(dpc = "done" /\ result \in {Some(TRUE), Some(FALSE)})

\* the dispatch ended with False after a relay raised an exception that only the
\* catch-all clause handles
C25_Witness ==
    /\ dpc = "done"
    /\ result = Some(FALSE)
    /\ Len(servers) >= 2
    /\ \E k \in 1..Len(outcomes) : outcomes[k].class = "Unknown"

(***************************************************************************)
(* C26                                                                     *)
(***************************************************************************)
\* every configured relay was tried and none succeeded
EveryRelayFailed ==
    /\ Len(outcomes) = Len(servers)
    /\ \A k \in 1..Len(outcomes) : ~outcomes[k].ok

\* C26: the failure report is produced at most once, at the end of a dispatch in
\* which every relay failed and in no other dispatch; it has one entry per
\* configured relay, in relay order
C26_FailureReportOnceIffAllFailed ==
    /\ Len(suggestions) <= 1
    /\ suggestions # <<>> => dpc = "done" /\ result = Some(FALSE)
    /\ dpc = "done" => (Len(suggestions) = 1 <=> EveryRelayFailed)
    /\ \A n \in 1..Len(suggestions) :
           /\ Len(suggestions[n]) = Len(servers)
           /\ \A k \in 1..Len(servers) : suggestions[n][k].name = servers[k].name

\* three relays failed for different reasons and the report lists the three
C26_Witness ==
    /\ dpc = "done"
    /\ Len(servers) = 3
    /\ EveryRelayFailed
    /\ Len(suggestions) = 1
    /\ Len(suggestions[1]) = 3
    /\ outcomes[1].class # outcomes[2].class

(***************************************************************************)
(* C29                                                                     *)
(***************************************************************************)
\* C29: at most one relay accepts the message in a dispatch; once a sendmail
\* succeeded no later relay is attempted and the dispatch returns True, also
\* when the quit after the send raises
C29_AtMostOneRelayAccepts ==
    /\ Len(transmitted) <= 1
    /\ \A k \in 1..Len(transmitted) :
           \A n \in 1..Len(attempted) : attempted[n] <= transmitted[k].relay
    /\ (dpc = "done" /\ transmitted # <<>>) => result = Some(TRUE)

(***************************************************************************)
(* C27                                                                     *)
(***************************************************************************)
\* the colour the row of a document must have
ColourOf(days_left) ==
    IF days_left = None THEN "#666666"
    ELSE IF Val(days_left) < 0 \/ Val(days_left) <= 1 THEN "#dc3545"
    ELSE IF Val(days_left) \in 2..7 THEN "#fd7e14"
    ELSE IF Val(days_left) \in 8..30 THEN "#ffc107"
    ELSE "#28a745"

\* the rows of the composed body, when the body template has a {table_rows} field
BodyRows ==
    {Val(message).Body[b].value :
        b \in {c \in 1..Len(Val(message).Body) : Val(message).Body[c].field = "table_rows"}}

\* C27: the colour of a row is determined by days_left alone: none gives gray,
\* below 0 or at most 1 red, 2..7 orange, 8..30 yellow, above 30 green; the body
\* has one row per document of the list, in the order of the list
C27_RowColourAndOrder ==
    message # None =>
        \A rows \in BodyRows :
            /\ Len(rows) = Len(email_documents)
            /\ \A k \in 1..Len(rows) :
                   \A c \in 1..Len(rows[k]) :
                       /\ rows[k][c].field = "color" =>
                              rows[k][c].value = <<ColourOf(email_documents[k].days_left)>>
                       /\ rows[k][c].field = "expiry_date" =>
                              rows[k][c].value =
                                  IF email_documents[k].expiry_date = None THEN <<"unknown">>
                                  ELSE <<"ymd", Val(email_documents[k].expiry_date)>>

\* a composed body with a coloured row for a document seven days from expiry
\* followed by one for a document without days_left
C27_Witness ==
    /\ message # None
    /\ Len(email_documents) = 2
    /\ email_documents[1].days_left = Some(7)
    /\ email_documents[2].days_left = None
    /\ \E rows \in BodyRows :
           /\ Len(rows) = 2
           /\ \E c \in 1..Len(rows[1]) :
                  rows[1][c].field = "color" /\ rows[1][c].value = <<"#fd7e14">>
           /\ \E c \in 1..Len(rows[2]) :
                  rows[2][c].field = "color" /\ rows[2][c].value = <<"#666666">>

(***************************************************************************)
(* C28                                                                     *)
(***************************************************************************)
\* the reminder list returned by the filter, as document indices
ListedDocuments == Val(reminder_documents)

\* C28, as stated: every document without days_left (and not marked handled)
\* is in the reminder list, ahead of every listed document that has a days_left
C28_UndatedComeFirst ==
    ppc = "done" =>
        \A k \in 1..Len(documents) :
            (documents[k].days_left = None /\ ~TrimmedIsSentinel(documents[k].remarks)) =>
                \E p \in 1..Len(ListedDocuments) :
                    /\ ListedDocuments[p] = k
                    /\ \A q \in 1..(p - 1) : documents[ListedDocuments[q]].days_left = None

\* C28, amended: a document without days_left never enters the reminder list,
\* so the sort key of every listed document is its own days_left and the
\* sentinel key is never applied; the list is ascending in days_left
C28_UndatedNeverListed ==
    ppc = "done" =>
        /\ \A p \in 1..Len(ListedDocuments) :
               /\ documents[ListedDocuments[p]].days_left # None
               /\ sort_key(documents[ListedDocuments[p]]) =
                      Val(documents[ListedDocuments[p]].days_left)
        /\ \A p, q \in 1..Len(ListedDocuments) :
               p < q => Val(documents[ListedDocuments[p]].days_left)
                           <= Val(documents[ListedDocuments[q]].days_left)

\* the batch holds an unhandled document without expiry date next to an expired
\* one; only the expired one is listed
C28_Witness ==
    /\ ppc = "done"
    /\ \E k \in 1..Len(documents) :
           /\ documents[k].days_left = None
           /\ ~TrimmedIsSentinel(documents[k].remarks)
    /\ Len(ListedDocuments) = 1
    /\ Val(documents[ListedDocuments[1]].days_left) < 0

(***************************************************************************)
(* C23                                                                     *)
(***************************************************************************)
\* the relays of a configuration, primary first
ConfiguredRelays(cfg) == <<cfg.email.primary_server>> \o cfg.email.backup_servers

\* relay host, user or secret empty, port outside 1..65535, empty or negative
\* reminder thresholds, negative expiring-soon threshold, empty recipient string
CheckedValueInvalid(cfg) ==
    \/ \E k \in 1..Len(ConfiguredRelays(cfg)) :
          LET r == ConfiguredRelays(cfg)[k]
          IN \/ Len(r.smtp_server) = 0
             \/ Len(r.smtp_user) = 0
             \/ Len(r.smtp_password) = 0
             \/ r.smtp_port \notin 1..65535
    \/ Len(cfg.reminder.days_before_expiry) = 0
    \/ \E k \in 1..Len(cfg.reminder.days_before_expiry) : cfg.reminder.days_before_expiry[k] < 0
    \/ cfg.report.days_until_expiring_threshold < 0
    \/ Len(cfg.email.receiver_email) = 0

\* some comma-separated entry of the recipient string lacks an @ or a dot
RecipientMalformed(cfg) ==
    \E e \in {receivers_of(cfg.email.receiver_email)[k] :
                 k \in 1..Len(receivers_of(cfg.email.receiver_email))} :
        "@" \notin {e[k] : k \in 1..Len(e)} \/ "." \notin {e[k] : k \in 1..Len(e)}

\* the subject, body or row template is empty
TemplateEmpty(cfg) ==
    \/ Len(cfg.mail_template.subject) = 0
    \/ Len(cfg.mail_template.body_html) = 0
    \/ Len(cfg.mail_template.table_row_html) = 0

\* no document has been read or classified and no relay has been attempted
NoProcessing ==
    /\ documents = <<>>
    /\ ppc = "off"
    /\ reminder_documents = None
    /\ dpc = "off"
    /\ message = None
    /\ attempted = <<>>

\* C23, as stated: when a configuration value is missing or out of range, a
\* malformed recipient string and an empty template included, the run aborts
\* before any processing
C23_InvalidConfigAborts ==
    (\/ CheckedValueInvalid(app_config)
     \/ RecipientMalformed(app_config)
     \/ TemplateEmpty(app_config)) =>
        /\ NoProcessing
        /\ apc = "exited" => exit_status = Some(1)

\* C23, amended: when a relay host, user or secret is empty, a port is outside
\* 1..65535, the reminder thresholds are empty or negative, the expiring-soon
\* threshold is negative or the recipient string is empty, the run aborts
\* before any processing; a malformed recipient string or an empty template is
\* reported as a warning only and the run goes on
C23_CheckedValuesAbort ==
    /\ CheckedValueInvalid(app_config) =>
           /\ NoProcessing
           /\ apc = "exited" => exit_status = Some(1)
    /\ (~CheckedValueInvalid(app_config) /\ apc # "start") =>
           /\ config_errors = Some(<<>>)
           /\ (RecipientMalformed(app_config) \/ TemplateEmpty(app_config)) =>
                  email_errors # Some(<<>>)
           /\ (apc = "exited" /\ args = "reminder" /\ ~read_csv_file_raises(data_file)) =>
                  documents # <<>>

\* the backup relay has port 0; the run ended with code 1 although the data
\* file holds an expired document, nothing was read and no relay was tried
C23_Witness ==
    /\ apc = "exited"
    /\ exit_status = Some(1)
    /\ Len(app_config.email.backup_servers) = 1
    /\ app_config.email.backup_servers[1].smtp_port = 0
    /\ app_config.email.primary_server.smtp_port = 65535
    /\ Len(app_config.email.primary_server.smtp_server) > 0
    /\ Len(data_file) = 2
    /\ NoProcessing

(***************************************************************************)
(* C30                                                                     *)
(***************************************************************************)
\* some document of the batch has been flagged by the filter
SomeDocumentNeedsReminder ==
    \E k \in 1..Len(documents) : documents[k].needs_reminder = Some(TRUE)

\* C30: a reminder run whose batch is empty or whose reminder list is empty
\* ends with success, composes no message and attempts no relay; a message is
\* composed and a relay attempted only when some document has
\* needs_reminder = true
C30_NothingToRemindNoDispatch ==
    args = "reminder" =>
        /\ (message # None \/ attempted # <<>>) => SomeDocumentNeedsReminder
        /\ (/\ apc = "exited"
            /\ config_errors = Some(<<>>)
            /\ (data_file = <<>> \/ reminder_documents = Some(<<>>))) =>
               /\ exit_status = Some(0)
               /\ message = None
               /\ attempted = <<>>
               /\ dpc = "off"

ScheduleSpec == SchedInit /\ [][ScheduleNext]_vars

SchedSpec == SchedInit /\ [][SchedNext]_vars

RerunSpec == PipelineInit /\ [][RerunNext]_vars

ReportSpec == ReportInit /\ [][ReportNext]_vars

PipelineSpec == PipelineInit /\ [][PipelineNext]_vars

====
